---- MODULE Spec2Model ----
(***************************************************************************)
(* Camera gizmo of racsoraul/three_camera_gizmo (src/core.ts, the file     *)
(* kept as src/unnamed/part_000, and its host component, part_001).        *)
(*                                                                         *)
(* Numbers.  Positions are integer vectors <<x, y, z>>.  Angles are whole  *)
(* quarter turns: the angle k stands for k * pi/2, so Math.sin and         *)
(* Math.cos are exact on them.  Normalized device coordinates are kept in  *)
(* halves: the coordinate n stands for n/2, so -2 is -1.0 and 2 is 1.0.    *)
(* Time is counted in ticks; a quiet period lasts QuietTicks ticks.        *)
(***************************************************************************)
EXTENDS Integers, Sequences, FiniteSets, TLC

VARIABLES
    sceneCameraDistance,  \* setupCameraGizmo's parameter of that name
    focusPoint,           \* sceneCameraFocusPoint
    sceneCamera,          \* the primary camera: [position, dir]
    gizmoCamera,          \* the gizmo camera: [position, dir, matrixWorld]
    gizmoScene,           \* children of the gizmo's private scene
    draws,                \* history: draws of the gizmo scene in the last frame
    gizmoRect,            \* the rectangle captured by setup
    mouse,                \* IMouse: [coordinates, isDown]
    dom,                  \* the gizmo container: "none", "attached", "removed"
    timers,               \* the window's pending timeouts
    inDebounce,           \* the timer id kept by gizmoAction's closure
    sinceInvoke,          \* history: ticks since gizmoAction was last invoked
    burstExecs,           \* history: executions of fn since the burst began
    lastArgs,             \* history: the arguments of the last invocation
    burstLen,             \* history of SpecDebounce: invocations of the burst
    viewTrail,            \* history of SpecView: the commands run so far
    bursts,               \* history of SpecRearm: bursts begun so far
    pointer,              \* the physical mouse: [down, over] (over the container)
    layout,               \* the rectangle the container has on screen now
    host,                 \* the host component: its stage, frame requests, listeners
    teardowns,            \* history: calls of destroyCameraGizmo (2 = 2 or more)
    peer,                 \* a second gizmo instance set up by the same module
    fault                 \* the error raised by the last operation, or "none"

vars == <<sceneCameraDistance, focusPoint, sceneCamera, gizmoCamera,
          gizmoScene, draws, gizmoRect, mouse, dom, timers, inDebounce,
          sinceInvoke, burstExecs, lastArgs, burstLen, viewTrail,
          bursts, pointer, layout, host, teardowns, peer, fault>>

config == <<sceneCameraDistance, focusPoint>>
aside == <<burstLen, viewTrail, bursts, pointer, layout, host>>
debounceVars == <<timers, inDebounce, sinceInvoke, burstExecs, lastArgs>>
gizmoVars == <<gizmoCamera, gizmoScene, draws, gizmoRect, mouse, dom, teardowns>>

----------------------------------------------------------------------------
(* Enumerations *)

CHANGE_VIEW_TO_TOP == "CHANGE_VIEW_TO_TOP"
CHANGE_VIEW_TO_BOTTOM == "CHANGE_VIEW_TO_BOTTOM"
CHANGE_VIEW_TO_LEFT == "CHANGE_VIEW_TO_LEFT"
CHANGE_VIEW_TO_RIGHT == "CHANGE_VIEW_TO_RIGHT"
CHANGE_VIEW_TO_FRONT == "CHANGE_VIEW_TO_FRONT"
CHANGE_VIEW_TO_BACK == "CHANGE_VIEW_TO_BACK"

COMMANDS ==
    {CHANGE_VIEW_TO_TOP, CHANGE_VIEW_TO_BOTTOM, CHANGE_VIEW_TO_LEFT,
     CHANGE_VIEW_TO_RIGHT, CHANGE_VIEW_TO_FRONT, CHANGE_VIEW_TO_BACK}

Axes == {"X", "Y", "Z"}

----------------------------------------------------------------------------
(* Vectors and trigonometry on quarter turns *)

Origin == <<0, 0, 0>>

VSub(a, b) == <<a[1] - b[1], a[2] - b[2], a[3] - b[3]>>

VNeg(a) == <<0 - a[1], 0 - a[2], 0 - a[3]>>

Dot(a, b) == a[1] * b[1] + a[2] * b[2] + a[3] * b[3]

Cross(a, b) ==
    <<a[2] * b[3] - a[3] * b[2],
      a[3] * b[1] - a[1] * b[3],
      a[1] * b[2] - a[2] * b[1]>>

DistSq(a, b) == Dot(VSub(a, b), VSub(a, b))

Abs(n) == IF n < 0 THEN 0 - n ELSE n

Sgn(n) == IF n < 0 THEN 0 - 1 ELSE IF n > 0 THEN 1 ELSE 0

\* Math.cos(k * pi/2)
Cos(k) == CASE k % 4 = 0 -> 1
            [] k % 4 = 1 -> 0
            [] k % 4 = 2 -> 0 - 1
            [] k % 4 = 3 -> 0

\* Math.sin(k * pi/2)
Sin(k) == CASE k % 4 = 0 -> 0
            [] k % 4 = 1 -> 1
            [] k % 4 = 2 -> 0
            [] k % 4 = 3 -> 0 - 1

\* Object3D.lookAt(target) of a camera at `position`: the viewing direction.
\* With target = position three.js keeps the default direction, down -Z.
LookAt(position, target) ==
    IF target = position THEN <<0, 0, 0 - 1>> ELSE VSub(target, position)

----------------------------------------------------------------------------
(* ViewResolver: rotateCamera and the action behind gizmoAction *)

\* rotateCamera with the position.y reset left out.
rotateCameraNoReset(camera, distance, focus, angle, axis) ==
    LET z == distance
        y == 0
        x == 0
        p == camera.position
    IN  CASE axis = "X" ->
               LET q == <<p[1],
                          y * Cos(angle) + z * Sin(angle),
                          z * Cos(angle) - y * Sin(angle)>>
               IN  [camera |-> [camera EXCEPT !.position = q,
                                              !.dir = LookAt(q, focus)],
                    threw |-> FALSE]
          [] axis = "Y" ->
               LET q == <<x * Cos(angle) + z * Sin(angle),
                          p[2],
                          z * Cos(angle) - x * Sin(angle)>>
               IN  [camera |-> [camera EXCEPT !.position = q,
                                              !.dir = LookAt(q, focus)],
                    threw |-> FALSE]
          [] axis = "Z" ->
               [camera |-> camera, threw |-> TRUE]

\* rotateCamera treating Z like Y instead of throwing.
rotateCameraZAsY(camera, distance, focus, angle, axis) ==
    rotateCameraNoReset(
        [camera EXCEPT !.position = <<@[1], 0, @[3]>>],
        distance, focus, angle, IF axis = "Z" THEN "Y" ELSE axis)

\* rotateCamera(sceneCamera, sceneCameraDistance, focusPoint, angle, axis):
\* the camera it leaves and whether it threw.  position.y is reset before
\* the switch, so also on the path that throws; lookAt runs only when the
\* switch completes.
rotateCamera(camera, distance, focus, angle, axis) ==
    LET reset == [camera EXCEPT !.position = <<@[1], 0, @[3]>>]
        z == distance
        y == 0
        x == 0
        p == reset.position
    IN  CASE axis = "X" ->
               LET q == <<p[1],
                          y * Cos(angle) + z * Sin(angle),
                          z * Cos(angle) - y * Sin(angle)>>
               IN  [camera |-> [reset EXCEPT !.position = q,
                                             !.dir = LookAt(q, focus)],
                    threw |-> FALSE]
          [] axis = "Y" ->
               LET q == <<x * Cos(angle) + z * Sin(angle),
                          p[2],
                          z * Cos(angle) - x * Sin(angle)>>
               IN  [camera |-> [reset EXCEPT !.position = q,
                                             !.dir = LookAt(q, focus)],
                    threw |-> FALSE]
          [] axis = "Z" ->
               [camera |-> reset, threw |-> TRUE]

\* Two rotateCamera calls in sequence; the second runs only if the first
\* completed.
Then(first, distance, focus, angle, axis) ==
    IF first.threw THEN first
    ELSE rotateCamera(first.camera, distance, focus, angle, axis)

\* The action with TOP and BOTTOM tilting without the rotation to angle 0
\* around Y first.
gizmoActionFnNoYReset(camera, distance, focus, command) ==
    CASE command = CHANGE_VIEW_TO_TOP ->
           rotateCamera(camera, distance, focus, 1, "X")
      [] command = CHANGE_VIEW_TO_BOTTOM ->
           rotateCamera(camera, distance, focus, 0 - 1, "X")
      [] command = CHANGE_VIEW_TO_RIGHT ->
           rotateCamera(camera, distance, focus, 1, "Y")
      [] command = CHANGE_VIEW_TO_LEFT ->
           rotateCamera(camera, distance, focus, 0 - 1, "Y")
      [] command = CHANGE_VIEW_TO_FRONT ->
           rotateCamera(camera, distance, focus, 0, "Y")
      [] command = CHANGE_VIEW_TO_BACK ->
           rotateCamera(camera, distance, focus, 2, "Y")
      [] OTHER -> [camera |-> camera, threw |-> FALSE]

\* The action with the angles of RIGHT and LEFT exchanged.
gizmoActionFnMirrored(camera, distance, focus, command) ==
    CASE command = CHANGE_VIEW_TO_TOP ->
           Then(rotateCamera(camera, distance, focus, 0, "Y"),
                distance, focus, 1, "X")
      [] command = CHANGE_VIEW_TO_BOTTOM ->
           Then(rotateCamera(camera, distance, focus, 0, "Y"),
                distance, focus, 0 - 1, "X")
      [] command = CHANGE_VIEW_TO_RIGHT ->
           rotateCamera(camera, distance, focus, 0 - 1, "Y")
      [] command = CHANGE_VIEW_TO_LEFT ->
           rotateCamera(camera, distance, focus, 1, "Y")
      [] command = CHANGE_VIEW_TO_FRONT ->
           rotateCamera(camera, distance, focus, 0, "Y")
      [] command = CHANGE_VIEW_TO_BACK ->
           rotateCamera(camera, distance, focus, 2, "Y")
      [] OTHER -> [camera |-> camera, threw |-> FALSE]

\* The switch over the command with TOP's tilt requested around Z.
gizmoActionFnTopAroundZ(camera, distance, focus, command) ==
    IF command = CHANGE_VIEW_TO_TOP
    THEN Then(rotateCamera(camera, distance, focus, 0, "Y"),
              distance, focus, 1, "Z")
    ELSE gizmoActionFnMirrored(
             camera, distance, focus,
             CASE command = CHANGE_VIEW_TO_RIGHT -> CHANGE_VIEW_TO_LEFT
               [] command = CHANGE_VIEW_TO_LEFT -> CHANGE_VIEW_TO_RIGHT
               [] OTHER -> command)

\* The switch over the command with a default case that goes to FRONT.
gizmoActionFnDefaultFront(camera, distance, focus, command) ==
    IF command \notin COMMANDS
    THEN rotateCamera(camera, distance, focus, 0, "Y")
    ELSE gizmoActionFnMirrored(
             camera, distance, focus,
             CASE command = CHANGE_VIEW_TO_RIGHT -> CHANGE_VIEW_TO_LEFT
               [] command = CHANGE_VIEW_TO_LEFT -> CHANGE_VIEW_TO_RIGHT
               [] OTHER -> command)

\* The function debounced into gizmoAction: the switch over the command.
\* A value that is none of the six commands falls through the switch.
gizmoActionFn(camera, distance, focus, command) ==
    CASE command = CHANGE_VIEW_TO_TOP ->
           Then(rotateCamera(camera, distance, focus, 0, "Y"),
                distance, focus, 1, "X")
      [] command = CHANGE_VIEW_TO_BOTTOM ->
           Then(rotateCamera(camera, distance, focus, 0, "Y"),
                distance, focus, 0 - 1, "X")
      [] command = CHANGE_VIEW_TO_RIGHT ->
           rotateCamera(camera, distance, focus, 1, "Y")
      [] command = CHANGE_VIEW_TO_LEFT ->
           rotateCamera(camera, distance, focus, 0 - 1, "Y")
      [] command = CHANGE_VIEW_TO_FRONT ->
           rotateCamera(camera, distance, focus, 0, "Y")
      [] command = CHANGE_VIEW_TO_BACK ->
           rotateCamera(camera, distance, focus, 2, "Y")
      [] OTHER -> [camera |-> camera, threw |-> FALSE]

----------------------------------------------------------------------------
(* RateLimiter: debounce, over the window's table of pending timeouts *)

\* Ticks of one quiet period (the 75 ms that gizmoAction passes to debounce).
QuietTicks == 3

\* window.clearTimeout(id): a pending timeout with that id is dropped.
clearTimeout(ts, id) == {t \in ts : t.id # id}

\* An id for a new timeout: none that is pending, nor the one last handed out.
FreshId(ts, cur) ==
    CHOOSE i \in 1..(Cardinality(ts) + 2) :
        /\ i # cur
        /\ \A t \in ts : t.id # i
        /\ \A j \in 1..(i - 1) : j = cur \/ \E t \in ts : t.id = j

\* window.setTimeout(() => fn.apply(null, params), ms) handing out `id`.
setTimeout(ts, id, params, ms) ==
    ts \cup {[id |-> id, params |-> params, remaining |-> ms]}

\* The wrapped action without its clearTimeout.
debounceNoClear(ts, cur, ms, params) ==
    [timers |-> setTimeout(ts, FreshId(ts, cur), params, ms),
     inDebounce |-> FreshId(ts, cur)]

\* The wrapped action arming itself once only: with an id in the closure it
\* neither clears nor sets a timeout.
debounceNoRearm(ts, cur, ms, params) ==
    IF cur # 0 THEN [timers |-> ts, inDebounce |-> cur]
    ELSE [timers |-> setTimeout(ts, FreshId(ts, cur), params, ms),
          inDebounce |-> FreshId(ts, cur)]

\* The wrapped action setting its timeout with no delay.
debounceNoDelay(ts, cur, ms, params) ==
    [timers |-> setTimeout(clearTimeout(ts, cur), FreshId(ts, cur), params, 0),
     inDebounce |-> FreshId(ts, cur)]

\* One invocation of the function debounce(ms, fn) returns, with the closure's
\* inDebounce = cur: the pending timeout is cleared and a new one is set.
debounce(ts, cur, ms, params) ==
    LET cleared == clearTimeout(ts, cur)
        id == FreshId(ts, cur)
    IN  [timers |-> setTimeout(cleared, id, params, ms),
         inDebounce |-> id]

\* A timeout has run down: its callback is the next thing the window runs.
TimerDue == \E t \in timers : t.remaining = 0

----------------------------------------------------------------------------
(* The gizmo's scene, its camera and the ray cast *)

\* setupCameraGizmo's default for gizmoCameraDistance.
gizmoCameraDistance == 5

\* Object3D.DefaultUp, shared by both cameras (gizmoCamera.up = sceneCamera.up).
Up == <<0, 1, 0>>

Face(position, command) ==
    [position |-> position, matrixWorld |-> Origin,
     userData |-> [command |-> command]]

\* addGizmoHandler tagging the bottom face with the top face's command.
addGizmoHandlerTopTwice ==
    << Face(<<1, 0, 0>>, CHANGE_VIEW_TO_RIGHT),
       Face(<<0 - 1, 0, 0>>, CHANGE_VIEW_TO_LEFT),
       Face(<<0, 0, 1>>, CHANGE_VIEW_TO_FRONT),
       Face(<<0, 0, 0 - 1>>, CHANGE_VIEW_TO_BACK),
       Face(<<0, 1, 0>>, CHANGE_VIEW_TO_TOP),
       Face(<<0, 0 - 1, 0>>, CHANGE_VIEW_TO_TOP) >>

\* addGizmoHandler: the children of the scene, in the order they are added.
\* A new object's world matrix is the identity until the scene is rendered.
addGizmoHandler ==
    << Face(<<1, 0, 0>>, CHANGE_VIEW_TO_RIGHT),
       Face(<<0 - 1, 0, 0>>, CHANGE_VIEW_TO_LEFT),
       Face(<<0, 0, 1>>, CHANGE_VIEW_TO_FRONT),
       Face(<<0, 0, 0 - 1>>, CHANGE_VIEW_TO_BACK),
       Face(<<0, 1, 0>>, CHANGE_VIEW_TO_TOP),
       Face(<<0, 0 - 1, 0>>, CHANGE_VIEW_TO_BOTTOM) >>

\* Vector3.length() of a vector whose length is a whole number.
VLength(v) ==
    CHOOSE n \in 0..(Abs(v[1]) + Abs(v[2]) + Abs(v[3])) : n * n = Dot(v, v)

\* Vector3.setLength(l): normalize, then scale; the zero vector stays zero.
SetLength(v, l) ==
    IF v = Origin THEN v
    ELSE <<(v[1] * l) \div VLength(v),
           (v[2] * l) \div VLength(v),
           (v[3] * l) \div VLength(v)>>

\* A new PerspectiveCamera: at the origin, looking down -Z.
NewCamera == [position |-> Origin, dir |-> <<0, 0, 0 - 1>>]

Pose(camera) == [position |-> camera.position, dir |-> camera.dir]

\* The unit vector of a direction along an axis (the only ones cast from).
AxisUnit(d) == <<Sgn(d[1]), Sgn(d[2]), Sgn(d[3])>>

OnAxis(d) == Abs(Sgn(d[1])) + Abs(Sgn(d[2])) + Abs(Sgn(d[3])) = 1

\* The camera's screen-right axis as Matrix4.lookAt builds it, back being the
\* unit vector from the target to the eye: up x back, and when the two are
\* parallel back is nudged towards +Z first.
ScreenRight(back) ==
    IF Cross(Up, back) = Origin THEN Cross(Up, <<0, 0, 1>>)
    ELSE Cross(Up, back)

ScreenUp(back) == Cross(back, ScreenRight(back))

\* Where a ray meets the plane of a cube's camera-facing side, in thousandths
\* of a unit across the screen: ndc n (in halves), tan(45deg / 2) = 0.414, at
\* depth2 half units from the eye, widened by the aspect w / h.
Across(n, depth2, w, h) == (n * 414 * depth2 * w) \div (4 * h)

\* Whether the ray through ndc `coords`, cast from the pose `m`, enters the
\* unit cube `face` through its camera-facing side (MeshBasicMaterial is
\* front-sided: a cube that holds the ray's origin is not hit).
Hits(m, coords, face, rect) ==
    LET f == AxisUnit(m.dir)
        back == VNeg(f)
        rel == VSub(face.matrixWorld, m.position)
        depth2 == 2 * Dot(rel, f) - 1
    IN  /\ OnAxis(m.dir)
        /\ face.matrixWorld # m.position
        /\ depth2 > 0
        /\ Abs(Across(coords[1], depth2, rect.width, rect.height)
               - 1000 * Dot(rel, ScreenRight(back))) <= 500
        /\ Abs(Across(coords[2], depth2, rect.height, rect.height)
               - 1000 * Dot(rel, ScreenUp(back))) <= 500

\* The distance at which the ray enters the cube, in half units of depth.
HitDistance(m, face) == 2 * Dot(VSub(face.matrixWorld, m.position), AxisUnit(m.dir)) - 1

RECURSIVE InsertByDistance(_, _)
\* Raycaster's ascending sort, one insertion: `hit` goes before the first
\* element that lies farther away.
InsertByDistance(hit, sorted) ==
    IF sorted = <<>> THEN <<hit>>
    ELSE IF hit.distance <= Head(sorted).distance THEN <<hit>> \o sorted
    ELSE <<Head(sorted)>> \o InsertByDistance(hit, Tail(sorted))

RECURSIVE Unsorted(_, _, _, _)
\* The intersections in the order of the scene's children, left unsorted.
Unsorted(m, coords, children, rect) ==
    IF children = <<>> THEN <<>>
    ELSE LET rest == Unsorted(m, coords, Tail(children), rect)
             c == Head(children)
         IN  IF Hits(m, coords, c, rect)
             THEN <<[object |-> c, distance |-> HitDistance(m, c)]>> \o rest
             ELSE rest

RECURSIVE intersectObjects(_, _, _, _)
\* raycaster.setFromCamera(coords, camera) followed by
\* raycaster.intersectObjects(children): the cubes hit, nearest first.  The
\* ray is cast from the camera's world matrix `m`, which is the pose the
\* renderer last drew with.
intersectObjects(m, coords, children, rect) ==
    IF children = <<>> THEN <<>>
    ELSE LET rest == intersectObjects(m, coords, Tail(children), rect)
             c == Head(children)
         IN  IF Hits(m, coords, c, rect)
             THEN InsertByDistance(
                      [object |-> c, distance |-> HitDistance(m, c)], rest)
             ELSE rest

----------------------------------------------------------------------------
(* PickController: the pointer state and its input adapters *)

\* x_ndc = ((clientX - left) / width) * 2 - 1, in halves.
NdcX(clientX, rect) == ((clientX - rect.left) * 4) \div rect.width - 2

\* The vertical coordinate without the change of sign.
NdcYUnflipped(clientY, rect) == ((clientY - rect.top) * 4) \div rect.height - 2

\* y_ndc = -((clientY - top) / height) * 2 + 1, in halves.
NdcY(clientY, rect) == 2 - ((clientY - rect.top) * 4) \div rect.height

\* mouseMovement measuring the container anew instead of using the rectangle
\* it was given.
onMouseMoveRequery(m, rect, clientX, clientY) ==
    [m EXCEPT !.coordinates = <<NdcX(clientX, layout), NdcY(clientY, layout)>>]

\* The body of mouseMovement: only the coordinates change.
onMouseMove(m, rect, clientX, clientY) ==
    [m EXCEPT !.coordinates = <<NdcX(clientX, rect), NdcY(clientY, rect)>>]

\* The body of onTouchMove's listener, on event.touches[0].
onTouchMove(m, rect, clientX, clientY) ==
    [m EXCEPT !.coordinates = <<NdcX(clientX, rect), NdcY(clientY, rect)>>]

\* touchStart setting the flag only (as in the prototype kept in part_002).
onTouchStartFlagOnly(m, rect, clientX, clientY) == [m EXCEPT !.isDown = TRUE]

\* The body of touchStart: the coordinates, then the flag.
onTouchStart(m, rect, clientX, clientY) ==
    [coordinates |-> <<NdcX(clientX, rect), NdcY(clientY, rect)>>,
     isDown |-> TRUE]

onTouchEnd(m) == [m EXCEPT !.isDown = FALSE]

onMouseDown(m) == [m EXCEPT !.isDown = TRUE]

onMouseUp(m) == [m EXCEPT !.isDown = FALSE]

\* The frame's condition without the pressed flag (as in src/utils.ts, where
\* it reads `true /*isMouseDown*/`).
ShouldDispatchAlways(intersects, m) == Len(intersects) > 0

\* typeof intersects[0] !== "undefined" && mouse.isDown
ShouldDispatch(intersects, m) == Len(intersects) > 0 /\ m.isDown

\* intersects[0].object.userData.command
PickedCommand(intersects) == intersects[1].object.userData.command

----------------------------------------------------------------------------
(* Inputs of the model *)

\* The rectangle the gizmo container has when setup measures it.
Rects == {[left |-> 10, top |-> 20, width |-> 8, height |-> 8]}

NoRect == [left |-> 0, top |-> 0, width |-> 0, height |-> 0]

\* Places of the pointer in the rectangle, in quarters of its width and
\* height from its top-left corner: the centre, the four places next to it
\* and a corner.
Spots == {<<2, 2>>, <<3, 2>>, <<1, 2>>, <<2, 1>>, <<2, 3>>, <<0, 0>>}

ClientX(spot, rect) == rect.left + spot[1] * (rect.width \div 4)

ClientY(spot, rect) == rect.top + spot[2] * (rect.height \div 4)

\* The camera distance the host configures (CAMERA_DISTANCE in the host).
SceneDistances == {6}

\* Poses OrbitControls may drag the primary camera to; its target is the
\* origin.
OrbitPositions == {<<0 - 9, 0, 0>>, <<0, 4, 0>>}

\* Inputs of the view functions on their own.
ViewDistances == {1, 6}

ViewFocusPoints == {Origin, <<1, 0, 0 - 2>>}

ViewCoordinates == {0 - 7, 0, 3}

ViewPositions ==
    {<<x, y, z>> : x \in ViewCoordinates, y \in ViewCoordinates,
                   z \in ViewCoordinates}

Angles == (0 - 2)..3

\* Commands recorded in viewTrail at most.
MaxTrail == 3

\* Invocations counted in one burst at most.
MaxBurst == 3

----------------------------------------------------------------------------
(* State before setup *)

NoArgs == "none"

InitMouse == [coordinates |-> <<0 - 2, 0 - 2>>, isDown |-> FALSE]

InitGizmoCamera ==
    [position |-> NewCamera.position, dir |-> NewCamera.dir,
     matrixWorld |-> Pose(NewCamera)]

\* The host component after its constructor: the resize listener is on the
\* window, frameId is 0, no animation frame is requested.  `calls` is the
\* history of the calls the component's last handler made, in order.
HostConstructed ==
    [stage |-> "constructed", frameId |-> 0, requested |-> {},
     listeners |-> {"resize"}, calls |-> <<>>]

InitCommon ==
    /\ gizmoCamera = InitGizmoCamera
    /\ gizmoScene = <<>>
    /\ draws = 0
    /\ gizmoRect = NoRect
    /\ mouse = InitMouse
    /\ dom = "none"
    /\ timers = {}
    /\ inDebounce = 0
    /\ sinceInvoke = QuietTicks + 1
    /\ burstExecs = 0
    /\ lastArgs = NoArgs
    /\ burstLen = 0
    /\ viewTrail = <<>>
    /\ bursts = 0
    /\ pointer = [down |-> FALSE, over |-> FALSE]
    /\ layout \in Rects
    /\ host = HostConstructed
    /\ teardowns = 0
    /\ peer = [sceneCamera |->
                   [position |-> <<0, 0, sceneCameraDistance>>,
                    dir |-> LookAt(<<0, 0, sceneCameraDistance>>, focusPoint)],
               gizmoCamera |-> InitGizmoCamera, gizmoScene |-> <<>>,
               gizmoRect |-> NoRect, mouse |-> InitMouse, dom |-> "none"]
    /\ fault = "none"

\* The module is loaded (gizmoAction's closure exists, no timeout is set) and
\* the host has placed its camera: position.set(0, 0, CAMERA_DISTANCE),
\* lookAt(CAMERA_FOCUS_POINT).
Init ==
    /\ sceneCameraDistance \in SceneDistances
    /\ focusPoint = Origin
    /\ sceneCamera = [position |-> <<0, 0, sceneCameraDistance>>,
                      dir |-> LookAt(<<0, 0, sceneCameraDistance>>, focusPoint)]
    /\ InitCommon

Ready == ~TimerDue

----------------------------------------------------------------------------
(* GizmoLifecycle *)

\* parentNode.removeChild(node) on the container: it throws NotFoundError
\* when the node is not a child any more.
removeChild(node) ==
    IF node = "attached" THEN [dom |-> "removed", threw |-> FALSE]
    ELSE [dom |-> node, threw |-> TRUE]

\* ChildNode.remove() on the container: an attached node leaves its parent,
\* a node without a parent is left as it is; it never throws.
remove(node) ==
    IF node = "attached" THEN [dom |-> "removed", threw |-> FALSE]
    ELSE [dom |-> node, threw |-> FALSE]

\* setupCameraGizmo appending the container before it tests the parent node.
setupCameraGizmoAppendFirst(hasParent, rect) ==
    /\ ~TimerDue
    /\ dom = "none"
    /\ dom' = "attached"
    /\ gizmoRect' = rect
    /\ fault' = IF hasParent THEN "none" ELSE "NoParentNode"
    /\ UNCHANGED <<config, peer, aside, sceneCamera, debounceVars, gizmoCamera,
                   gizmoScene, draws, mouse, teardowns>>

\* setupCameraGizmo(sceneContainer, ...): with a parent node the container is
\* appended and measured, the listeners are registered, the scene and the
\* camera are built; without one it throws.
setupCameraGizmo(hasParent, rect) ==
    /\ Ready
    /\ dom = "none"
    /\ IF hasParent
       THEN /\ dom' = "attached"
            /\ gizmoRect' = rect
            /\ mouse' = InitMouse
            /\ gizmoScene' = addGizmoHandler
            /\ draws' = 0
            /\ gizmoCamera' = InitGizmoCamera
            /\ teardowns' = 0
            /\ fault' = "none"
       ELSE /\ fault' = "NoParentNode"
            /\ UNCHANGED gizmoVars
    /\ UNCHANGED <<config, peer, aside, sceneCamera, debounceVars>>

\* destroyCameraGizmo looking the container up by its id, "gizmo", which
\* every instance gives its container: the element found is the other
\* instance's when that one is in the document.
destroyCameraGizmoById ==
    /\ Ready
    /\ dom \in {"attached", "removed"}
    /\ IF peer.dom = "attached"
       THEN /\ peer' = [peer EXCEPT !.dom = "removed"]
            /\ dom' = dom
       ELSE /\ dom' = remove(dom).dom
            /\ peer' = peer
    /\ fault' = "none"
    /\ teardowns' = IF teardowns >= 2 THEN 2 ELSE teardowns + 1
    /\ UNCHANGED <<config, aside, sceneCamera, gizmoCamera, gizmoScene, draws,
                   gizmoRect, mouse, debounceVars>>

\* destroyCameraGizmo: gizmoContainer.remove(), and nothing else.
destroyCameraGizmo ==
    /\ Ready
    /\ dom \in {"attached", "removed"}
    /\ dom' = remove(dom).dom
    /\ fault' = IF remove(dom).threw THEN "NotFoundError" ELSE "none"
    /\ teardowns' = IF teardowns >= 2 THEN 2 ELSE teardowns + 1
    /\ UNCHANGED <<config, peer, aside, sceneCamera, gizmoCamera, gizmoScene, draws,
                   gizmoRect, mouse, debounceVars>>

\* WebGLRenderer.render(scene, camera): the world matrices of the scene's
\* children and of the camera are brought up to date, then the frame is drawn.
RenderedScene(children) ==
    [i \in DOMAIN children |->
        [position |-> children[i].position,
         matrixWorld |-> children[i].position,
         userData |-> children[i].userData]]

\* The synchronisation without setLength: the position is only copied.
SyncedCameraUnscaled(primary, focus) ==
    [position |-> primary.position,
     dir |-> LookAt(primary.position, focus),
     matrixWorld |-> [position |-> primary.position,
                      dir |-> LookAt(primary.position, focus)]]

\* The gizmo camera at the end of a frame: the primary camera's position, set
\* to the gizmo distance, looking at the focus point, and drawn with.
SyncedCamera(primary, focus) ==
    LET p == SetLength(primary.position, gizmoCameraDistance)
    IN  [position |-> p, dir |-> LookAt(p, focus),
         matrixWorld |-> [position |-> p, dir |-> LookAt(p, focus)]]

\* What gizmoAction's first argument refers to: the primary camera of this
\* instance, the primary camera of the second instance, or no object.
ThisCamera == "sceneCamera"
PeerCamera == "peer.sceneCamera"
Undefined == "undefined"

\* gizmoAction(camera, sceneCameraDistance, focusPoint, command): one
\* invocation of the module's one wrapped action, with what the history
\* records of it.
gizmoAction(camera, command) ==
    LET params == [sceneCamera |-> camera,
                   sceneCameraDistance |-> sceneCameraDistance,
                   focusPoint |-> focusPoint, command |-> command]
        d == debounce(timers, inDebounce, QuietTicks, params)
    IN  /\ timers' = d.timers
        /\ inDebounce' = d.inDebounce
        /\ sinceInvoke' = 0
        /\ lastArgs' = command
        /\ burstExecs' = IF lastArgs = NoArgs \/ sinceInvoke >= QuietTicks
                         THEN 0 ELSE burstExecs

\* The frame's call of gizmoAction, on this instance's primary camera.
Dispatch(command) == gizmoAction(ThisCamera, command)

\* The frame calling the view function itself instead of the wrapped action.
animateGizmoSynchronous ==
    LET intersects == intersectObjects(gizmoCamera.matrixWorld,
                                       mouse.coordinates, gizmoScene, gizmoRect)
        after == IF ShouldDispatch(intersects, mouse)
                 THEN gizmoActionFn(sceneCamera, sceneCameraDistance,
                                    focusPoint,
                                    PickedCommand(intersects)).camera
                 ELSE sceneCamera
    IN  /\ ~TimerDue
        /\ dom \in {"attached", "removed"}
        /\ sceneCamera' = after
        /\ gizmoCamera' = SyncedCamera(after, focusPoint)
        /\ gizmoScene' = RenderedScene(gizmoScene)
        /\ draws' = 1
        /\ fault' = "none"
        /\ UNCHANGED <<config, peer, aside, gizmoRect, mouse, dom, teardowns,
                       debounceVars>>

\* The frame without the test for a first intersection: with the pointer
\* pressed over no face, reading intersects[0].object raises a TypeError
\* before the synchronisation and the draw.
renderCameraGizmoUnguarded ==
    LET intersects == intersectObjects(gizmoCamera.matrixWorld,
                                       mouse.coordinates, gizmoScene, gizmoRect)
    IN  /\ Ready
        /\ dom \in {"attached", "removed"}
        /\ IF mouse.isDown /\ intersects = <<>>
           THEN /\ fault' = "TypeError"
                /\ draws' = 0
                /\ UNCHANGED <<debounceVars, gizmoCamera, gizmoScene>>
           ELSE /\ IF mouse.isDown
                   THEN Dispatch(PickedCommand(intersects))
                   ELSE UNCHANGED debounceVars
                /\ gizmoCamera' = SyncedCamera(sceneCamera, focusPoint)
                /\ gizmoScene' = RenderedScene(gizmoScene)
                /\ draws' = 1
                /\ fault' = "none"
        /\ UNCHANGED <<config, peer, sceneCamera, gizmoRect, mouse, dom,
                       teardowns>>

\* renderCameraGizmo, the function animateGizmo returns: the ray cast and the
\* dispatch, then the camera synchronisation, then the draw.
renderCameraGizmo ==
    LET intersects == intersectObjects(gizmoCamera.matrixWorld,
                                       mouse.coordinates, gizmoScene, gizmoRect)
    IN  /\ Ready
        /\ dom \in {"attached", "removed"}
        /\ IF ShouldDispatch(intersects, mouse)
           THEN Dispatch(PickedCommand(intersects))
           ELSE UNCHANGED debounceVars
        /\ gizmoCamera' = SyncedCamera(sceneCamera, focusPoint)
        /\ gizmoScene' = RenderedScene(gizmoScene)
        /\ draws' = 1
        /\ fault' = "none"
        /\ UNCHANGED <<config, peer, sceneCamera, gizmoRect, mouse, dom,
                       teardowns>>

\* The host's animation loop calls renderCameraGizmo.
animateGizmo == renderCameraGizmo /\ UNCHANGED aside

----------------------------------------------------------------------------
(* Events the host delivers; listeners hang on the attached container *)

Listening == Ready /\ dom = "attached"

PointerFrame == <<config, peer, aside, sceneCamera, gizmoCamera, gizmoScene, draws,
                  gizmoRect, dom, teardowns, debounceVars>>

MouseMove(spot) ==
    /\ Listening
    /\ mouse' = onMouseMove(mouse, gizmoRect, ClientX(spot, gizmoRect),
                            ClientY(spot, gizmoRect))
    /\ fault' = "none"
    /\ UNCHANGED PointerFrame

MouseDown ==
    /\ Listening
    /\ mouse' = onMouseDown(mouse)
    /\ fault' = "none"
    /\ UNCHANGED PointerFrame

MouseUp ==
    /\ Listening
    /\ mouse' = onMouseUp(mouse)
    /\ fault' = "none"
    /\ UNCHANGED PointerFrame

TouchMove(spot) ==
    /\ Listening
    /\ mouse' = onTouchMove(mouse, gizmoRect, ClientX(spot, gizmoRect),
                            ClientY(spot, gizmoRect))
    /\ fault' = "none"
    /\ UNCHANGED PointerFrame

TouchStart(spot) ==
    /\ Listening
    /\ mouse' = onTouchStart(mouse, gizmoRect, ClientX(spot, gizmoRect),
                             ClientY(spot, gizmoRect))
    /\ fault' = "none"
    /\ UNCHANGED PointerFrame

TouchEnd ==
    /\ Listening
    /\ mouse' = onTouchEnd(mouse)
    /\ fault' = "none"
    /\ UNCHANGED PointerFrame

\* OrbitControls moves the primary camera around its target.
OrbitControls(p) ==
    /\ Ready
    /\ sceneCamera' = [position |-> p, dir |-> LookAt(p, Origin)]
    /\ fault' = "none"
    /\ UNCHANGED <<config, peer, aside, gizmoVars, debounceVars>>

----------------------------------------------------------------------------
(* Time *)

\* One tick passes.  A timeout that has run down fires before time moves on
\* and before the window runs anything else.
Tick ==
    /\ Ready
    /\ timers' = {[t EXCEPT !.remaining = @ - 1] : t \in timers}
    /\ sinceInvoke' = IF sinceInvoke > QuietTicks THEN sinceInvoke
                      ELSE sinceInvoke + 1
    /\ fault' = "none"
    /\ UNCHANGED <<config, peer, aside, sceneCamera, gizmoVars, inDebounce, burstExecs,
                   lastArgs>>

\* fn.apply(null, params) on the camera `params` refers to: the camera it
\* leaves and the error it raised.  Without a camera object the first
\* statement of rotateCamera, sceneCamera.position.y = 0, raises a TypeError.
Apply(camera, params) ==
    IF params.sceneCamera = Undefined
    THEN [camera |-> camera,
          fault |-> IF params.command \in COMMANDS THEN "TypeError"
                    ELSE "none"]
    ELSE LET r == gizmoActionFn(camera, params.sceneCameraDistance,
                                params.focusPoint, params.command)
         IN  [camera |-> r.camera,
              fault |-> IF r.threw THEN "UnsupportedAxis" ELSE "none"]

\* The timeout's callback: fn.apply(null, params).
TimerCallback ==
    \E t \in timers :
        LET onPeer == t.params.sceneCamera = PeerCamera
            r == Apply(IF onPeer THEN peer.sceneCamera ELSE sceneCamera,
                       t.params)
        IN  /\ t.remaining = 0
            /\ timers' = timers \ {t}
            /\ sceneCamera' = IF onPeer THEN sceneCamera ELSE r.camera
            /\ peer' = IF onPeer THEN [peer EXCEPT !.sceneCamera = r.camera]
                       ELSE peer
            /\ fault' = r.fault
            /\ burstExecs' = IF burstExecs >= 2 THEN 2 ELSE burstExecs + 1
            /\ UNCHANGED <<config, gizmoVars, inDebounce, sinceInvoke,
                           lastArgs>>

\* The window runs the callback of a timeout that has run down.
TimerFires == TimerCallback /\ UNCHANGED aside

Next ==
    \/ \E hasParent \in BOOLEAN, rect \in Rects :
           setupCameraGizmo(hasParent, rect)
    \/ destroyCameraGizmo
    \/ animateGizmo
    \/ \E spot \in Spots : MouseMove(spot)
    \/ MouseDown
    \/ MouseUp
    \/ \E spot \in Spots : TouchMove(spot)
    \/ \E spot \in Spots : TouchStart(spot)
    \/ TouchEnd
    \/ \E p \in OrbitPositions : OrbitControls(p)
    \/ Tick
    \/ TimerFires

Spec == Init /\ [][Next]_vars

----------------------------------------------------------------------------
(* The rate limiter on its own: gizmoAction invoked by any caller *)

\* gizmoAction(sceneCamera, sceneCameraDistance, focusPoint, command).
Invoke(command) ==
    LET continues == lastArgs # NoArgs /\ sinceInvoke < QuietTicks
    IN  /\ Ready
        /\ continues => burstLen < MaxBurst
        /\ Dispatch(command)
        /\ burstLen' = IF continues THEN burstLen + 1 ELSE 1
        /\ fault' = "none"
        /\ UNCHANGED <<config, peer, sceneCamera, gizmoVars, viewTrail, bursts,
                       pointer, layout, host>>

NextDebounce ==
    \/ \E command \in COMMANDS : Invoke(command)
    \/ Tick
    \/ TimerFires

SpecDebounce == Init /\ [][NextDebounce]_vars

\* gizmoAction invoked with any first argument: a camera or no object.
InvokeWith(camera, command) ==
    /\ Ready
    /\ gizmoAction(camera, command)
    /\ fault' = "none"
    /\ UNCHANGED <<config, peer, aside, sceneCamera, gizmoVars>>

\* Bursts begun at most in SpecRearm.
MaxRearm == 3

\* The commands SpecRearm invokes gizmoAction with.
RearmCommands == {CHANGE_VIEW_TO_RIGHT, CHANGE_VIEW_TO_TOP}

\* gizmoAction invoked, with the bursts counted: an invocation begins a burst
\* when none came before it or the last one is a quiet period old.
InvokeBurst(command) ==
    LET continues == lastArgs # NoArgs /\ sinceInvoke < QuietTicks
    IN  /\ Ready
        /\ IF continues THEN burstLen < MaxBurst ELSE bursts < MaxRearm
        /\ Dispatch(command)
        /\ burstLen' = IF continues THEN burstLen + 1 ELSE 1
        /\ bursts' = IF continues THEN bursts ELSE bursts + 1
        /\ fault' = "none"
        /\ UNCHANGED <<config, peer, sceneCamera, gizmoVars, viewTrail, pointer,
                       layout, host>>

\* The callback of a timeout, with the command it ran kept in viewTrail.
TimerFiresTrailed ==
    /\ TimerCallback
    /\ viewTrail' = Append(viewTrail,
                           (CHOOSE t \in timers : t \notin timers').params.command)
    /\ UNCHANGED <<burstLen, bursts, pointer, layout, host>>

NextRearm ==
    \/ \E command \in RearmCommands : InvokeBurst(command)
    \/ Tick
    \/ TimerFiresTrailed

SpecRearm == Init /\ [][NextRearm]_vars

\* The window's clock advances and a timeout that has run down is run.
FairSpecRearm ==
    SpecRearm /\ WF_vars(Tick) /\ WF_vars(TimerFiresTrailed)

\* A frame, with the dispatches of the running burst counted in burstLen
\* (MaxBurst standing for MaxBurst or more).
HeldFrame ==
    LET continues == lastArgs # NoArgs /\ sinceInvoke < QuietTicks
        counted == IF ~continues THEN 1
                   ELSE IF burstLen >= MaxBurst THEN MaxBurst
                   ELSE burstLen + 1
    IN  /\ renderCameraGizmo
        /\ burstLen' = IF inDebounce' # inDebounce THEN counted ELSE burstLen
        /\ UNCHANGED <<viewTrail, bursts, pointer, layout, host>>

\* The pointer is put down on the gizmo and held while frames arrive, moved
\* over it, and lifted.
NextHold ==
    \/ \E hasParent \in BOOLEAN, rect \in Rects :
           setupCameraGizmo(hasParent, rect)
    \/ HeldFrame
    \/ \E spot \in Spots : TouchStart(spot)
    \/ \E spot \in Spots : TouchMove(spot)
    \/ TouchEnd
    \/ Tick
    \/ TimerFires

SpecHold == Init /\ [][NextHold]_vars

\* What the physical mouse leaves alone.
MouseRest == <<config, peer, sceneCamera, gizmoCamera, gizmoScene, draws, gizmoRect,
               dom, teardowns, debounceVars, burstLen, viewTrail, bursts,
               layout, host>>

\* The mouse moves to `spot` of the container: mousemove is delivered there.
PhysicalMove(spot) ==
    /\ Listening
    /\ pointer' = [pointer EXCEPT !.over = TRUE]
    /\ mouse' = onMouseMove(mouse, gizmoRect, ClientX(spot, gizmoRect),
                            ClientY(spot, gizmoRect))
    /\ fault' = "none"
    /\ UNCHANGED MouseRest

\* The mouse leaves the container: no listener is registered for that.
PhysicalLeave ==
    /\ Listening
    /\ pointer.over
    /\ pointer' = [pointer EXCEPT !.over = FALSE]
    /\ fault' = "none"
    /\ UNCHANGED <<mouse, MouseRest>>

\* The button goes down: mousedown is delivered to the element under the
\* mouse, so to the container's listener only when the mouse is over it.
PhysicalDown ==
    /\ Listening
    /\ ~pointer.down
    /\ pointer' = [pointer EXCEPT !.down = TRUE]
    /\ mouse' = IF pointer.over THEN onMouseDown(mouse) ELSE mouse
    /\ fault' = "none"
    /\ UNCHANGED MouseRest

\* The button goes up: mouseup is delivered to the element under the mouse,
\* so to the container's listener only when the mouse is over it.
PhysicalUp ==
    /\ Listening
    /\ pointer.down
    /\ pointer' = [pointer EXCEPT !.down = FALSE]
    /\ mouse' = IF pointer.over THEN onMouseUp(mouse) ELSE mouse
    /\ fault' = "none"
    /\ UNCHANGED MouseRest

NextRelease ==
    \/ \E hasParent \in BOOLEAN, rect \in Rects :
           setupCameraGizmo(hasParent, rect)
    \/ animateGizmo
    \/ \E spot \in Spots : PhysicalMove(spot)
    \/ PhysicalLeave
    \/ PhysicalDown
    \/ PhysicalUp
    \/ Tick
    \/ TimerFires

SpecRelease == Init /\ [][NextRelease]_vars

\* Rectangles the container may come to have on screen when the page scrolls
\* or is laid out again.
LayoutRects ==
    {[left |-> l, top |-> t, width |-> 8, height |-> 8] :
        l \in {6, 10, 14}, t \in {20, 24}}

\* The page is scrolled or laid out again: the container is elsewhere on
\* screen; no code of the gizmo runs.
Relayout(rect) ==
    /\ Ready
    /\ rect # layout
    /\ layout' = rect
    /\ fault' = "none"
    /\ UNCHANGED <<config, peer, sceneCamera, gizmoVars, debounceVars,
                   burstLen, viewTrail, bursts, pointer, host>>

\* A mousemove at `spot` of the container as it is on screen now.
LayoutMouseMove(spot) ==
    /\ Listening
    /\ mouse' = onMouseMove(mouse, gizmoRect, ClientX(spot, layout),
                            ClientY(spot, layout))
    /\ fault' = "none"
    /\ UNCHANGED PointerFrame

\* A touchmove at `spot` of the container as it is on screen now.
LayoutTouchMove(spot) ==
    /\ Listening
    /\ mouse' = onTouchMove(mouse, gizmoRect, ClientX(spot, layout),
                            ClientY(spot, layout))
    /\ fault' = "none"
    /\ UNCHANGED PointerFrame

\* A touchstart at `spot` of the container as it is on screen now.
LayoutTouchStart(spot) ==
    /\ Listening
    /\ mouse' = onTouchStart(mouse, gizmoRect, ClientX(spot, layout),
                             ClientY(spot, layout))
    /\ fault' = "none"
    /\ UNCHANGED PointerFrame

\* setup measures the container where it is on screen at that moment.
NextLayout ==
    \/ \E hasParent \in BOOLEAN : setupCameraGizmo(hasParent, layout)
    \/ \E rect \in LayoutRects : Relayout(rect)
    \/ \E spot \in Spots : LayoutMouseMove(spot)
    \/ \E spot \in Spots : LayoutTouchMove(spot)
    \/ \E spot \in Spots : LayoutTouchStart(spot)
    \/ TouchEnd
    \/ animateGizmo

SpecLayout == Init /\ [][NextLayout]_vars

\* Values gizmoAction may be handed as its command: the six commands and the
\* userData.command of an object that carries none.
StrayCommands == COMMANDS \cup {Undefined}

\* gizmoAction invoked with any command value while OrbitControls moves the
\* camera.
NextStray ==
    \/ \E command \in StrayCommands : InvokeWith(ThisCamera, command)
    \/ \E p \in OrbitPositions : OrbitControls(p)
    \/ Tick
    \/ TimerFires

SpecStray == Init /\ [][NextStray]_vars

NextForget ==
    \/ \E camera \in {ThisCamera, Undefined}, command \in COMMANDS :
           InvokeWith(camera, command)
    \/ Tick
    \/ TimerFires

SpecForget == Init /\ [][NextForget]_vars

----------------------------------------------------------------------------
(* The view functions on their own: any camera, distance and focus point *)

InitView ==
    /\ sceneCameraDistance \in ViewDistances
    /\ focusPoint \in ViewFocusPoints
    /\ \E p \in ViewPositions :
           sceneCamera \in {[position |-> p, dir |-> NewCamera.dir],
                            [position |-> p, dir |-> LookAt(p, Origin)]}
    /\ InitCommon

\* The debounced function runs with `command`.
ViewExec(command) ==
    LET r == gizmoActionFn(sceneCamera, sceneCameraDistance, focusPoint,
                           command)
    IN  /\ sceneCamera' = r.camera
        /\ fault' = IF r.threw THEN "UnsupportedAxis" ELSE "none"
        /\ lastArgs' = command
        /\ Len(viewTrail) < MaxTrail
        /\ viewTrail' = Append(viewTrail, command)
        /\ UNCHANGED <<config, peer, gizmoVars, timers, inDebounce, sinceInvoke,
                       burstExecs, burstLen, bursts, pointer, layout, host>>

\* rotateCamera is called directly.
ViewRotate(angle, axis) ==
    LET r == rotateCamera(sceneCamera, sceneCameraDistance, focusPoint,
                          angle, axis)
    IN  /\ sceneCamera' = r.camera
        /\ fault' = IF r.threw THEN "UnsupportedAxis" ELSE "none"
        /\ lastArgs' = axis
        /\ UNCHANGED <<config, peer, aside, gizmoVars, timers, inDebounce, sinceInvoke,
                       burstExecs>>

NextView ==
    \/ \E command \in COMMANDS : ViewExec(command)
    \/ \E angle \in Angles, axis \in Axes : ViewRotate(angle, axis)

SpecView == InitView /\ [][NextView]_vars

----------------------------------------------------------------------------
(* Two gizmo instances set up by one page: both use the module's gizmoAction *)

\* setupCameraGizmo called for the second instance.
PeerSetup(hasParent, rect) ==
    /\ Ready
    /\ peer.dom = "none"
    /\ IF hasParent
       THEN /\ peer' = [peer EXCEPT !.dom = "attached",
                                    !.gizmoRect = rect,
                                    !.mouse = InitMouse,
                                    !.gizmoScene = addGizmoHandler,
                                    !.gizmoCamera = InitGizmoCamera]
            /\ fault' = "none"
       ELSE /\ fault' = "NoParentNode"
            /\ UNCHANGED peer
    /\ UNCHANGED <<config, aside, sceneCamera, gizmoVars, debounceVars>>

\* renderCameraGizmo of the second instance: the same closure over that
\* instance's mouse, scene and cameras, calling the same gizmoAction.
PeerFrame ==
    LET intersects == intersectObjects(peer.gizmoCamera.matrixWorld,
                                       peer.mouse.coordinates,
                                       peer.gizmoScene, peer.gizmoRect)
    IN  /\ Ready
        /\ peer.dom = "attached"
        /\ IF ShouldDispatch(intersects, peer.mouse)
           THEN gizmoAction(PeerCamera, PickedCommand(intersects))
           ELSE UNCHANGED debounceVars
        /\ peer' = [peer EXCEPT
                       !.gizmoCamera = SyncedCamera(peer.sceneCamera, focusPoint),
                       !.gizmoScene = RenderedScene(peer.gizmoScene)]
        /\ fault' = "none"
        /\ UNCHANGED <<config, aside, sceneCamera, gizmoVars>>

\* A touchstart on the second instance's container.
PeerTouchStart(spot) ==
    /\ Ready
    /\ peer.dom = "attached"
    /\ peer' = [peer EXCEPT
                   !.mouse = onTouchStart(peer.mouse, peer.gizmoRect,
                                          ClientX(spot, peer.gizmoRect),
                                          ClientY(spot, peer.gizmoRect))]
    /\ fault' = "none"
    /\ UNCHANGED <<config, aside, sceneCamera, gizmoVars, debounceVars>>

\* A touchend on the second instance's container.
PeerTouchEnd ==
    /\ Ready
    /\ peer.dom = "attached"
    /\ peer' = [peer EXCEPT !.mouse = onTouchEnd(peer.mouse)]
    /\ fault' = "none"
    /\ UNCHANGED <<config, aside, sceneCamera, gizmoVars, debounceVars>>

\* The first instance is touched right of the centre, the second left of it.
NextTwo ==
    \/ \E hasParent \in BOOLEAN, rect \in Rects :
           setupCameraGizmo(hasParent, rect)
    \/ animateGizmo
    \/ TouchStart(<<3, 2>>)
    \/ TouchEnd
    \/ \E hasParent \in BOOLEAN, rect \in Rects : PeerSetup(hasParent, rect)
    \/ PeerFrame
    \/ PeerTouchStart(<<1, 2>>)
    \/ PeerTouchEnd
    \/ Tick
    \/ TimerFires

SpecTwo == Init /\ [][NextTwo]_vars

\* destroyCameraGizmo of the second instance: its own container is removed.
PeerDestroy ==
    /\ Ready
    /\ peer.dom \in {"attached", "removed"}
    /\ peer' = [peer EXCEPT !.dom = remove(peer.dom).dom]
    /\ fault' = IF remove(peer.dom).threw THEN "NotFoundError" ELSE "none"
    /\ UNCHANGED <<config, aside, sceneCamera, gizmoVars, debounceVars>>

\* Two instances that are set up, used and destroyed independently.
NextOwn ==
    \/ \E hasParent \in BOOLEAN, rect \in Rects :
           setupCameraGizmo(hasParent, rect)
    \/ animateGizmo
    \/ TouchStart(<<3, 2>>)
    \/ TouchEnd
    \/ destroyCameraGizmo
    \/ \E hasParent \in BOOLEAN, rect \in Rects : PeerSetup(hasParent, rect)
    \/ PeerFrame
    \/ PeerTouchStart(<<1, 2>>)
    \/ PeerTouchEnd
    \/ PeerDestroy
    \/ Tick
    \/ TimerFires

SpecOwn == Init /\ [][NextOwn]_vars

----------------------------------------------------------------------------
(* The host component: it mounts, runs its animation loop, unmounts *)

\* Animation frames requested at most.
MaxFrames == 4

\* The variables of `aside` that the host component does not write.
hostAside == <<burstLen, viewTrail, bursts, pointer, layout>>

\* componentDidMount: the camera is placed, the gizmo is set up on the scene
\* container (which lies in the App element, so it has a parent node), and
\* animate() is called: it requests a frame, draws the primary scene and
\* runs renderCameraGizmo on the pointer state that setup has just built.
HostMount(rect) ==
    LET p == <<0, 0, sceneCameraDistance>>
        placed == [position |-> p, dir |-> LookAt(p, focusPoint)]
        intersects == intersectObjects(InitGizmoCamera.matrixWorld,
                                       InitMouse.coordinates, addGizmoHandler,
                                       rect)
    IN  /\ Ready
        /\ host.stage = "constructed"
        /\ dom = "none"
        /\ sceneCamera' = placed
        /\ dom' = "attached"
        /\ gizmoRect' = rect
        /\ mouse' = InitMouse
        /\ teardowns' = 0
        /\ host' = [host EXCEPT !.stage = "mounted",
                                !.frameId = host.frameId + 1,
                                !.requested = @ \cup {host.frameId + 1},
                                !.calls = <<"setupCameraGizmo",
                                            "requestAnimationFrame", "render",
                                            "renderCameraGizmo">>]
        /\ IF ShouldDispatch(intersects, InitMouse)
           THEN Dispatch(PickedCommand(intersects))
           ELSE UNCHANGED debounceVars
        /\ gizmoCamera' = SyncedCamera(placed, focusPoint)
        /\ gizmoScene' = RenderedScene(addGizmoHandler)
        /\ draws' = 1
        /\ fault' = "none"
        /\ UNCHANGED <<config, peer, hostAside>>

\* The window runs a requested animation frame: animate requests the next
\* one and keeps its id, draws the primary scene, then calls
\* renderCameraGizmo.
HostAnimate ==
    \E id \in host.requested :
        /\ host.frameId < MaxFrames
        /\ renderCameraGizmo
        /\ host' = [host EXCEPT !.frameId = host.frameId + 1,
                                !.requested = (@ \ {id})
                                                  \cup {host.frameId + 1},
                                !.calls = <<"requestAnimationFrame", "render",
                                            "renderCameraGizmo">>]
        /\ UNCHANGED hostAside

\* componentWillUnmount without the cancelAnimationFrame call.
HostUnmountNoCancel ==
    /\ Ready
    /\ host.stage = "mounted"
    /\ host' = [host EXCEPT !.stage = "unmounted",
                            !.listeners = @ \ {"resize"},
                            !.calls = <<"removeEventListener",
                                        "destroyCameraGizmo">>]
    /\ dom' = remove(dom).dom
    /\ fault' = IF remove(dom).threw THEN "NotFoundError" ELSE "none"
    /\ teardowns' = IF teardowns >= 2 THEN 2 ELSE teardowns + 1
    /\ UNCHANGED <<config, peer, hostAside, sceneCamera, gizmoCamera,
                   gizmoScene, draws, gizmoRect, mouse, debounceVars>>

\* componentWillUnmount: cancelAnimationFrame(this.frameId), the resize
\* listener is removed, destroyCameraGizmo is called.
HostUnmount ==
    /\ Ready
    /\ host.stage = "mounted"
    /\ host' = [host EXCEPT !.stage = "unmounted",
                            !.requested = @ \ {host.frameId},
                            !.listeners = @ \ {"resize"},
                            !.calls = <<"cancelAnimationFrame",
                                        "removeEventListener",
                                        "destroyCameraGizmo">>]
    /\ dom' = remove(dom).dom
    /\ fault' = IF remove(dom).threw THEN "NotFoundError" ELSE "none"
    /\ teardowns' = IF teardowns >= 2 THEN 2 ELSE teardowns + 1
    /\ UNCHANGED <<config, peer, hostAside, sceneCamera, gizmoCamera,
                   gizmoScene, draws, gizmoRect, mouse, debounceVars>>

NextHost ==
    \/ \E rect \in Rects : HostMount(rect)
    \/ HostAnimate
    \/ HostUnmount
    \/ \E spot \in {<<3, 2>>, <<2, 1>>} : TouchStart(spot)
    \/ TouchEnd
    \/ \E p \in OrbitPositions : OrbitControls(p)
    \/ Tick
    \/ TimerFires

SpecHost == Init /\ [][NextHost]_vars

----------------------------------------------------------------------------
(* The prototype host component, which picks in its own scene *)

\* Ticks of the 100 ms that the prototype's gizmoAction passes to debounce.
ProtoQuietTicks == 4

\* The component after its constructor: three listeners are on the window,
\* the pointer is at (-1, -1) and not pressed, no frame is requested.
ProtoConstructed ==
    [stage |-> "constructed", frameId |-> 0, requested |-> {},
     listeners |-> {"resize", "mousedown", "mouseup"}, calls |-> <<>>]

InitProto ==
    /\ sceneCameraDistance \in SceneDistances
    /\ focusPoint = Origin
    /\ sceneCamera = NewCamera
    /\ gizmoCamera = InitGizmoCamera
    /\ gizmoScene = <<>>
    /\ draws = 0
    /\ gizmoRect = NoRect
    /\ mouse = InitMouse
    /\ dom = "none"
    /\ timers = {}
    /\ inDebounce = 0
    /\ sinceInvoke = ProtoQuietTicks + 1
    /\ burstExecs = 0
    /\ lastArgs = NoArgs
    /\ burstLen = 0
    /\ viewTrail = <<>>
    /\ bursts = 0
    /\ pointer = [down |-> FALSE, over |-> FALSE]
    /\ layout \in Rects
    /\ host = ProtoConstructed
    /\ teardowns = 0
    /\ peer = [sceneCamera |-> NewCamera, gizmoCamera |-> InitGizmoCamera,
               gizmoScene |-> <<>>, gizmoRect |-> NoRect, mouse |-> InitMouse,
               dom |-> "none"]
    /\ fault = "none"

\* What the prototype's handlers never write.
protoRest == <<config, peer, hostAside, gizmoCamera, gizmoScene, draws,
               gizmoRect, dom, teardowns>>

\* Where the ray through the pointer crosses the plane of the cubes' front
\* faces (z = 7.5, which is 92.5 from the camera at z = 100), along one
\* axis, for a coordinate in halves: 92.5 * tan(45/2 degrees) * c / 2, in
\* units of 1/200000, with tan(22.5 degrees) taken as 0.4142.
ProtoReach(c) == 925 * 4142 * c

\* raycaster.intersectObjects(this.scene.children) from the camera at
\* (0, 0, 100) looking at the origin, in a square container: the white cube
\* spans x from 7.5 to 22.5, the black cube from -7.5 to 7.5, both span y
\* from -7.5 to 7.5; only their front faces can be seen from the camera.
ProtoIntersects(coords) ==
    LET x == ProtoReach(coords[1])
        y == ProtoReach(coords[2])
        unit == 200000
        inY == (0 - 15) * unit <= 2 * y /\ 2 * y <= 15 * unit
        white == inY /\ 15 * unit < 2 * x /\ 2 * x <= 45 * unit
        black == inY /\ (0 - 15) * unit <= 2 * x /\ 2 * x <= 15 * unit
    IN  (IF white
         THEN <<[object |-> [userData |-> [command |-> "ROTATE_RIGHT"]]]>>
         ELSE <<>>)
        \o (IF black
            THEN <<[object |-> [userData |-> [command |-> "ROTATE_LEFT"]]]>>
            ELSE <<>>)

\* The pick and the dispatch of one animate call: this.gizmoAction is
\* debounce(100, ...) around a function that logs the command.
ProtoPick ==
    LET intersects == ProtoIntersects(mouse.coordinates)
        d == debounce(timers, inDebounce, ProtoQuietTicks,
                      [command |-> PickedCommand(intersects)])
    IN  IF ShouldDispatch(intersects, mouse)
        THEN /\ timers' = d.timers
             /\ inDebounce' = d.inDebounce
             /\ sinceInvoke' = 0
             /\ lastArgs' = PickedCommand(intersects)
             /\ burstExecs' = burstExecs
        ELSE UNCHANGED debounceVars

\* componentDidMount: the mousemove listener is put on the container, the
\* camera is placed at (0, 0, 100), animate() is called.  The pointer is
\* still at the corner (-1, -1), where the ray meets no cube.
ProtoMount ==
    /\ Ready
    /\ host.stage = "constructed"
    /\ sceneCamera' = [position |-> <<0, 0, 100>>,
                       dir |-> LookAt(<<0, 0, 100>>, Origin)]
    /\ host' = [host EXCEPT !.stage = "mounted",
                            !.listeners = @ \cup {"container.mousemove"},
                            !.frameId = host.frameId + 1,
                            !.requested = @ \cup {host.frameId + 1},
                            !.calls = <<"requestAnimationFrame",
                                        "intersectObjects", "render">>]
    /\ ProtoPick
    /\ fault' = "none"
    /\ UNCHANGED <<protoRest, mouse>>

\* The window runs a requested animation frame.
ProtoAnimate ==
    \E id \in host.requested :
        /\ Ready
        /\ host.frameId < MaxFrames
        /\ host' = [host EXCEPT !.frameId = host.frameId + 1,
                                !.requested = (@ \ {id})
                                                  \cup {host.frameId + 1},
                                !.calls = <<"requestAnimationFrame",
                                            "intersectObjects", "render">>]
        /\ ProtoPick
        /\ fault' = "none"
        /\ UNCHANGED <<protoRest, mouse, sceneCamera>>

\* componentWillUnmount: this.stop(), which cancels the animation frame.
\* The element leaves the document with the component.
ProtoUnmount ==
    /\ Ready
    /\ host.stage = "mounted"
    /\ host' = [host EXCEPT !.stage = "unmounted",
                            !.requested = @ \ {host.frameId},
                            !.calls = <<"cancelAnimationFrame">>]
    /\ fault' = "none"
    /\ UNCHANGED <<protoRest, mouse, sceneCamera, debounceVars>>

\* A mousemove on the container while it is in the document: the rectangle
\* is measured at every event.
ProtoMouseMove(spot) ==
    /\ Ready
    /\ host.stage = "mounted"
    /\ "container.mousemove" \in host.listeners
    /\ mouse' = [mouse EXCEPT !.coordinates =
                     <<NdcX(ClientX(spot, layout), layout),
                       NdcY(ClientY(spot, layout), layout)>>]
    /\ fault' = "none"
    /\ UNCHANGED <<protoRest, host, sceneCamera, debounceVars>>

\* A mousedown anywhere in the window, while the listener is on the window.
ProtoMouseDown ==
    /\ Ready
    /\ "mousedown" \in host.listeners
    /\ mouse' = [mouse EXCEPT !.isDown = TRUE]
    /\ fault' = "none"
    /\ UNCHANGED <<protoRest, host, sceneCamera, debounceVars>>

\* A mouseup anywhere in the window, while the listener is on the window.
ProtoMouseUp ==
    /\ Ready
    /\ "mouseup" \in host.listeners
    /\ mouse' = [mouse EXCEPT !.isDown = FALSE]
    /\ fault' = "none"
    /\ UNCHANGED <<protoRest, host, sceneCamera, debounceVars>>

\* The timeout of the prototype's gizmoAction runs: the command is logged.
ProtoTimerFires ==
    \E t \in timers :
        /\ t.remaining = 0
        /\ timers' = timers \ {t}
        /\ burstExecs' = IF burstExecs >= 2 THEN 2 ELSE burstExecs + 1
        /\ fault' = "none"
        /\ UNCHANGED <<protoRest, host, mouse, sceneCamera, inDebounce,
                       sinceInvoke, lastArgs>>

NextProto ==
    \/ ProtoMount
    \/ ProtoAnimate
    \/ ProtoUnmount
    \/ \E spot \in {<<2, 2>>, <<3, 2>>, <<0, 0>>} : ProtoMouseMove(spot)
    \/ ProtoMouseDown
    \/ ProtoMouseUp
    \/ Tick
    \/ ProtoTimerFires

SpecProto == InitProto /\ [][NextProto]_vars

----------------------------------------------------------------------------
(* The input adapters on their own: any rectangle, any place in it *)

\* Rectangles getBoundingClientRect may return for the container.
PointerRects ==
    {[left |-> l, top |-> t, width |-> w, height |-> h] :
        l \in {0, 10}, t \in {0, 20}, w \in {8, 12}, h \in {4, 8}}

\* Places in the rectangle, corners and edges included, in quarters of its
\* width and height.
PointerSpots == {<<i, j>> : i \in 0..4, j \in 0..4}

\* The container is attached and measured; the pointer state is the one setup
\* creates, Vector2(-1, -1), which is where an event at the bottom-left corner
\* would put it.  Here lastArgs keeps clientX and clientY of the last event.
InitPointer ==
    /\ sceneCameraDistance \in SceneDistances
    /\ focusPoint = Origin
    /\ sceneCamera = [position |-> <<0, 0, sceneCameraDistance>>,
                      dir |-> LookAt(<<0, 0, sceneCameraDistance>>, focusPoint)]
    /\ gizmoCamera = InitGizmoCamera
    /\ gizmoScene = addGizmoHandler
    /\ draws = 0
    /\ gizmoRect \in PointerRects
    /\ mouse = InitMouse
    /\ dom = "attached"
    /\ timers = {}
    /\ inDebounce = 0
    /\ sinceInvoke = QuietTicks + 1
    /\ burstExecs = 0
    /\ lastArgs = <<gizmoRect.left, gizmoRect.top + gizmoRect.height>>
    /\ burstLen = 0
    /\ viewTrail = <<>>
    /\ bursts = 0
    /\ pointer = [down |-> FALSE, over |-> FALSE]
    /\ layout = gizmoRect
    /\ host = HostConstructed
    /\ teardowns = 0
    /\ peer = [sceneCamera |-> sceneCamera, gizmoCamera |-> InitGizmoCamera,
               gizmoScene |-> <<>>, gizmoRect |-> NoRect, mouse |-> InitMouse,
               dom |-> "none"]
    /\ fault = "none"

PointerRest == <<config, peer, aside, sceneCamera, gizmoCamera, gizmoScene, draws,
                 gizmoRect, dom, teardowns, timers, inDebounce, sinceInvoke,
                 burstExecs>>

\* A mousemove event at `spot`.
PointerMouseMove(spot) ==
    LET x == ClientX(spot, gizmoRect)
        y == ClientY(spot, gizmoRect)
    IN  /\ mouse' = onMouseMove(mouse, gizmoRect, x, y)
        /\ lastArgs' = <<x, y>>
        /\ fault' = "none"
        /\ UNCHANGED PointerRest

\* A touchmove event whose first touch is at `spot`.
PointerTouchMove(spot) ==
    LET x == ClientX(spot, gizmoRect)
        y == ClientY(spot, gizmoRect)
    IN  /\ mouse' = onTouchMove(mouse, gizmoRect, x, y)
        /\ lastArgs' = <<x, y>>
        /\ fault' = "none"
        /\ UNCHANGED PointerRest

\* A touchstart event whose first touch is at `spot`.
PointerTouchStart(spot) ==
    LET x == ClientX(spot, gizmoRect)
        y == ClientY(spot, gizmoRect)
    IN  /\ mouse' = onTouchStart(mouse, gizmoRect, x, y)
        /\ lastArgs' = <<x, y>>
        /\ fault' = "none"
        /\ UNCHANGED PointerRest

NextPointer ==
    \/ \E spot \in PointerSpots : PointerMouseMove(spot)
    \/ \E spot \in PointerSpots : PointerTouchMove(spot)
    \/ \E spot \in PointerSpots : PointerTouchStart(spot)
    \/ MouseDown
    \/ MouseUp
    \/ TouchEnd

SpecPointer == InitPointer /\ [][NextPointer]_vars

----------------------------------------------------------------------------
(* Properties *)

\* The pose each command stands for, at distance r from the origin.
ViewPosition(command, r) ==
    CASE command = CHANGE_VIEW_TO_FRONT -> <<0, 0, r>>
      [] command = CHANGE_VIEW_TO_BACK -> <<0, 0, 0 - r>>
      [] command = CHANGE_VIEW_TO_RIGHT -> <<r, 0, 0>>
      [] command = CHANGE_VIEW_TO_LEFT -> <<0 - r, 0, 0>>
      [] command = CHANGE_VIEW_TO_TOP -> <<0, r, 0>>
      [] command = CHANGE_VIEW_TO_BOTTOM -> <<0, 0 - r, 0>>

\* A burst is open while the last invocation is less than a quiet period old.
BurstOpen == lastArgs # NoArgs /\ sinceInvoke < QuietTicks

\* A burst is over once a quiet period has passed since its last invocation
\* and the window has run the timeout that came due.
BurstOver == lastArgs # NoArgs /\ sinceInvoke >= QuietTicks /\ ~TimerDue

\* fn ran in this step.
Executes == burstExecs' > burstExecs

\* C1: a burst of invocations, each less than a quiet period after the one
\* before, runs fn exactly once: not while the burst is open, once when it is
\* over, and with the arguments of the burst's last invocation.
C1_BurstRunsOnceWithLastArgs ==
    /\ [](BurstOpen => burstExecs = 0)
    /\ [](BurstOver => burstExecs = 1)
    /\ [][Executes =>
            sceneCamera' = gizmoActionFn(sceneCamera, sceneCameraDistance,
                                         focusPoint, lastArgs).camera]_vars

C1_Witness ==
    /\ burstLen >= 3
    /\ BurstOver
    /\ burstExecs = 1
    /\ lastArgs = CHANGE_VIEW_TO_RIGHT
    /\ sceneCamera.position = <<sceneCameraDistance, 0, 0>>

\* The children the frame's ray enters, by index.
HitIndices ==
    {i \in DOMAIN gizmoScene :
        Hits(gizmoCamera.matrixWorld, mouse.coordinates, gizmoScene[i],
             gizmoRect)}

\* The hit child that no other hit child is nearer than.
NearestIndex ==
    CHOOSE i \in HitIndices :
        \A j \in HitIndices :
            HitDistance(gizmoCamera.matrixWorld, gizmoScene[i])
                <= HitDistance(gizmoCamera.matrixWorld, gizmoScene[j])

NearestCommand == gizmoScene[NearestIndex].userData.command

\* The one timeout a dispatch of `command` leaves pending.
PendingFor(command, id) ==
    {[id |-> id,
      params |-> [sceneCamera |-> ThisCamera,
                  sceneCameraDistance |-> sceneCameraDistance,
                  focusPoint |-> focusPoint, command |-> command],
      remaining |-> QuietTicks]}

\* C2: a frame dispatches iff the pointer is pressed and the ray enters a
\* face; it dispatches the nearest face's command, once; otherwise nothing.
C2_DispatchIffPressedOverFace ==
    [][(mouse' = mouse /\ sceneCamera' = sceneCamera /\ animateGizmo) =>
         IF mouse.isDown /\ HitIndices # {}
         THEN /\ inDebounce' # inDebounce
              /\ timers' = PendingFor(NearestCommand, inDebounce')
              /\ lastArgs' = NearestCommand
         ELSE UNCHANGED <<timers, inDebounce, lastArgs, sinceInvoke>>]_vars

C2_Witness ==
    /\ sinceInvoke = 0
    /\ mouse.isDown
    /\ mouse.coordinates = <<0, 0>>
    /\ gizmoCamera.position = <<0, 0, 0 - gizmoCameraDistance>>
    /\ lastArgs = CHANGE_VIEW_TO_BACK
    /\ Cardinality(timers) = 1

\* C3: once a command has run, the camera is at the configured distance from
\* the focus point and looks at it.
C3_AtDistanceFromFocus ==
    lastArgs \in COMMANDS =>
        /\ DistSq(sceneCamera.position, focusPoint)
               = sceneCameraDistance * sceneCameraDistance
        /\ sceneCamera.dir = LookAt(sceneCamera.position, focusPoint)

\* The offset of the face that carries `command`.
FaceOffset(command) ==
    LET i == CHOOSE k \in DOMAIN addGizmoHandler :
                 addGizmoHandler[k].userData.command = command
    IN  addGizmoHandler[i].position

Scaled(v, r) == <<v[1] * r, v[2] * r, v[3] * r>>

\* C4: with the focus at the origin each command leaves the camera at its
\* pose: FRONT (0,0,R), BACK (0,0,-R), RIGHT (R,0,0), LEFT (-R,0,0),
\* TOP (0,R,0), BOTTOM (0,-R,0), the signed axis of the face that carries it.
C4_CommandPoses ==
    (lastArgs \in COMMANDS /\ focusPoint = Origin) =>
        /\ sceneCamera.position = ViewPosition(lastArgs, sceneCameraDistance)
        /\ sceneCamera.position
               = Scaled(FaceOffset(lastArgs), sceneCameraDistance)

C4_Witness ==
    /\ lastArgs = CHANGE_VIEW_TO_TOP
    /\ focusPoint = Origin
    /\ sceneCameraDistance = 6
    /\ sceneCamera.position = <<0, 6, 0>>

\* C5: a command is absolute: whatever the pose before it, the camera ends
\* where the command alone would have put it from any other pose.
C5_CommandsAreAbsolute ==
    [][\A command \in COMMANDS :
          ViewExec(command) =>
              \A p \in ViewPositions :
                  sceneCamera'.position
                      = gizmoActionFn([position |-> p, dir |-> NewCamera.dir],
                                      sceneCameraDistance, focusPoint,
                                      command).camera.position]_vars

C5_Witness ==
    /\ viewTrail = <<CHANGE_VIEW_TO_FRONT, CHANGE_VIEW_TO_BACK,
                     CHANGE_VIEW_TO_FRONT>>
    /\ lastArgs = CHANGE_VIEW_TO_FRONT
    /\ sceneCamera.position = <<0, 0, sceneCameraDistance>>

\* The camera in the FRONT pose.
FrontCamera ==
    [position |-> <<0, 0, sceneCameraDistance>>,
     dir |-> LookAt(<<0, 0, sceneCameraDistance>>, focusPoint)]

\* C6: TOP and BOTTOM from any pose end in the pose they end in from the
\* FRONT pose, with no left/right component left over.
C6_TopBottomResetY ==
    [][\A command \in {CHANGE_VIEW_TO_TOP, CHANGE_VIEW_TO_BOTTOM} :
          ViewExec(command) =>
              /\ sceneCamera' = gizmoActionFn(FrontCamera, sceneCameraDistance,
                                              focusPoint, command).camera
              /\ sceneCamera'.position[1] = 0]_vars

C6_Witness ==
    /\ viewTrail = <<CHANGE_VIEW_TO_LEFT, CHANGE_VIEW_TO_TOP>>
    /\ lastArgs = CHANGE_VIEW_TO_TOP
    /\ sceneCamera.position = <<0, sceneCameraDistance, 0>>

\* C7: rotateCamera around Z raises the unsupported-axis error, whatever the
\* angle and the pose.
C7_AxisZThrows == lastArgs = "Z" => fault = "UnsupportedAxis"

C7_Witness ==
    /\ lastArgs = "Z"
    /\ fault = "UnsupportedAxis"
    /\ sceneCamera.position[1] # 0

\* C8: a frame with the pointer pressed over a face dispatches that face's
\* command, and the timeout that runs a quiet period after the last dispatch
\* leaves the primary camera in that command's pose.
C8_PressedFaceBecomesView ==
    /\ [][(mouse.isDown /\ mouse' = mouse /\ sceneCamera' = sceneCamera
            /\ animateGizmo /\ HitIndices # {}) =>
             /\ lastArgs' = NearestCommand
             /\ timers' # {}
             /\ sinceInvoke' = 0]_vars
    /\ [][Executes =>
             /\ sinceInvoke = QuietTicks
             /\ sceneCamera'.position
                    = Scaled(FaceOffset(lastArgs), sceneCameraDistance)]_vars

C8_Witness ==
    /\ BurstOver
    /\ burstExecs = 1
    /\ mouse.isDown
    /\ mouse.coordinates = <<1, 0>>
    /\ lastArgs = CHANGE_VIEW_TO_RIGHT
    /\ sceneCamera.position = <<sceneCameraDistance, 0, 0>>
    /\ gizmoCamera.position = <<0, 0, gizmoCameraDistance>>

\* C9: destroying the gizmo cancels the pending debounced command.
C9_DestroyCancelsPending ==
    [][destroyCameraGizmo => timers' = {}]_vars

\* C10: after teardown a frame dispatches nothing and raises nothing.
C10_FrameAfterTeardownIsNoOp ==
    [][(dom = "removed" /\ mouse' = mouse /\ animateGizmo) =>
           /\ UNCHANGED <<timers, inDebounce>>
           /\ fault' = "none"]_vars

\* C11: setupCameraGizmo on a container without a parent node raises the
\* no-parent error and leaves nothing behind: no container is attached, no
\* rectangle is measured, no listener is registered, no scene is built and
\* no manager is returned (no frame and no teardown can be called).
C11_NoParentLeavesNothing ==
    /\ [](fault = "NoParentNode" =>
             /\ dom = "none"
             /\ ~Listening
             /\ gizmoScene = <<>>
             /\ gizmoRect = NoRect
             /\ mouse = InitMouse)
    /\ [][(dom = "none" /\ dom' = "none" /\ fault' # "none") =>
             /\ fault' = "NoParentNode"
             /\ UNCHANGED <<gizmoVars, sceneCamera, debounceVars>>]_vars

C11_Witness ==
    /\ fault = "NoParentNode"
    /\ dom = "none"
    /\ sceneCamera.position = <<0 - 9, 0, 0>>

\* C12: destroyCameraGizmo removes the container from its parent, and a
\* second call raises nothing and leaves it removed.
C12_TeardownIdempotent ==
    /\ [](teardowns >= 1 => dom = "removed")
    /\ [][teardowns' # teardowns => fault' = "none" /\ ~Listening']_vars

C12_Witness ==
    /\ teardowns = 2
    /\ dom = "removed"
    /\ fault = "none"

\* The intersections of a ray cast from the pose that mirrors the primary
\* camera as it is in this frame.
MirroredIntersects ==
    intersectObjects(SyncedCamera(sceneCamera, focusPoint).matrixWorld,
                     mouse.coordinates, gizmoScene, gizmoRect)

\* C13: the pick of a frame is made from the gizmo camera pose that mirrors
\* the primary camera in that frame: what the frame dispatches is what a ray
\* from that pose picks, never what a ray from the pose of the frame before
\* or from the unsynchronised first pose picks.
C13_PickFromThisFramesPose ==
    [][(mouse' = mouse /\ sceneCamera' = sceneCamera /\ animateGizmo) =>
         IF ShouldDispatch(MirroredIntersects, mouse)
         THEN /\ lastArgs' = PickedCommand(MirroredIntersects)
              /\ sinceInvoke' = 0
              /\ timers' # {}
         ELSE UNCHANGED <<timers, inDebounce, lastArgs, sinceInvoke>>]_vars

\* C14: at the end of a frame the gizmo camera is a function of the primary
\* camera alone: on the ray from the origin through the primary camera's
\* position, at the gizmo camera distance, looking at the focus point, and
\* drawn with in that pose.
C14_GizmoCameraDerived ==
    [][(mouse' = mouse /\ sceneCamera' = sceneCamera /\ animateGizmo) =>
         /\ Cross(gizmoCamera'.position, sceneCamera.position) = Origin
         /\ Dot(gizmoCamera'.position, sceneCamera.position) > 0
         /\ Dot(gizmoCamera'.position, gizmoCamera'.position)
                = gizmoCameraDistance * gizmoCameraDistance
         /\ gizmoCamera'.dir = LookAt(gizmoCamera'.position, focusPoint)
         /\ gizmoCamera'.matrixWorld = Pose(gizmoCamera')]_vars

C14_Witness ==
    /\ sceneCamera.position = <<0 - 9, 0, 0>>
    /\ gizmoCamera.position = <<0 - gizmoCameraDistance, 0, 0>>
    /\ gizmoCamera.dir = <<gizmoCameraDistance, 0, 0>>
    /\ gizmoCamera.matrixWorld = Pose(gizmoCamera)

\* C15: the pointer's coordinates are x = ((rawX - left) / width) * 2 - 1 and
\* y = -((rawY - top) / height) * 2 + 1 of the last event: the centre of the
\* rectangle gives (0, 0), its top-left corner (-1, 1), its bottom-right
\* corner (1, -1), and every place in it lies in [-1, 1] on both axes.
C15_Normalization ==
    LET rawX == lastArgs[1]
        rawY == lastArgs[2]
        r == gizmoRect
        x == mouse.coordinates[1]
        y == mouse.coordinates[2]
    IN  /\ x * r.width = 4 * (rawX - r.left) - 2 * r.width
        /\ y * r.height = 2 * r.height - 4 * (rawY - r.top)
        /\ (2 * rawX = 2 * r.left + r.width /\ 2 * rawY = 2 * r.top + r.height)
               => mouse.coordinates = <<0, 0>>
        /\ (rawX = r.left /\ rawY = r.top)
               => mouse.coordinates = <<0 - 2, 2>>
        /\ (rawX = r.left + r.width /\ rawY = r.top + r.height)
               => mouse.coordinates = <<2, 0 - 2>>
        /\ (rawX \in r.left..(r.left + r.width)
              /\ rawY \in r.top..(r.top + r.height))
               => (x \in (0 - 2)..2 /\ y \in (0 - 2)..2)

C15_Witness ==
    /\ gizmoRect = [left |-> 10, top |-> 20, width |-> 12, height |-> 4]
    /\ lastArgs = <<22, 24>>
    /\ mouse = [coordinates |-> <<2, 0 - 2>>, isDown |-> TRUE]

\* The wrapped action was invoked in this step: the closure holds a new id.
Invokes == inDebounce' # inDebounce

\* C16: with the focus at the origin a direct rotateCamera call around X or Y
\* leaves the camera at the configured distance from the focus point, with
\* its coordinate along the axis at zero, whatever the pose before the call.
C16_RotateOnCircle ==
    (lastArgs \in {"X", "Y"} /\ focusPoint = Origin) =>
        /\ DistSq(sceneCamera.position, focusPoint)
               = sceneCameraDistance * sceneCameraDistance
        /\ lastArgs = "X" => sceneCamera.position[1] = 0
        /\ lastArgs = "Y" => sceneCamera.position[2] = 0

\* C17: the wrapped action has at most one timeout pending in every state,
\* and an invocation leaves exactly one, with a whole quiet period to run,
\* however many invocations came before it.
C17_OnePendingTimer ==
    /\ [](Cardinality(timers) <= 1)
    /\ [][Invokes =>
             /\ Cardinality(timers') = 1
             /\ \A t \in timers' :
                    /\ t.id = inDebounce'
                    /\ t.remaining = QuietTicks
                    /\ t.params.command = lastArgs'
             /\ \A t \in timers : t \notin timers']_vars

C17_Witness ==
    /\ burstLen = MaxBurst
    /\ sinceInvoke = 0
    /\ Cardinality(timers) = 1
    /\ \A t \in timers : t.remaining = QuietTicks /\ t.id = inDebounce

\* C18: a command dispatched by one instance and still pending is neither
\* cancelled nor replaced when the other instance dispatches: the timeout
\* set for this instance's camera is still pending after the dispatch.
C18_LimiterPerInstance ==
    [][(/\ Invokes
        /\ \E n \in timers' \ timers : n.params.sceneCamera = PeerCamera) =>
          \A t \in timers :
              t.params.sceneCamera = ThisCamera => t \in timers']_vars

\* C19: the primary camera's pose changes only when the debounce timeout
\* fires (or the host's own controls move it), never in a frame and never in
\* a pointer or touch callback; a frame that dispatches leaves it as it was.
C19_CameraMovesOnlyInTimer ==
    /\ [][sceneCamera' # sceneCamera =>
             (TimerFires \/ \E p \in OrbitPositions : OrbitControls(p))]_vars
    /\ [][(Invokes \/ mouse' # mouse) =>
             sceneCamera' = sceneCamera]_vars

C19_Witness ==
    /\ sinceInvoke = 0
    /\ lastArgs = CHANGE_VIEW_TO_LEFT
    /\ timers # {}
    /\ sceneCamera.position = <<0, 0, sceneCameraDistance>>
    /\ gizmoCamera.position = <<0, 0, gizmoCameraDistance>>

\* C20: an invocation of the wrapped action runs nothing and raises nothing:
\* it only replaces the pending timeout; fn runs no earlier than a quiet
\* period after the last invocation, and an error of fn is raised in the
\* timeout's callback, in a step that is not an invocation.
C20_FireAndForget ==
    /\ [][Invokes =>
             /\ sinceInvoke' = 0
             /\ fault' = "none"
             /\ sceneCamera' = sceneCamera
             /\ burstExecs' <= burstExecs
             /\ Cardinality(timers') = 1]_vars
    /\ [][Executes => sinceInvoke >= QuietTicks]_vars
    /\ [][fault' # "none" =>
             /\ Executes
             /\ UNCHANGED <<sinceInvoke, lastArgs, inDebounce>>]_vars

C20_Witness ==
    /\ fault = "TypeError"
    /\ burstExecs = 1
    /\ sinceInvoke = QuietTicks
    /\ timers = {}
    /\ sceneCamera.position = <<0, 0, sceneCameraDistance>>

\* C21: the wrapped action re-arms after it has fired: k bursts, each more
\* than a quiet period after the one before, run fn k times, once per burst
\* and with the last arguments of that burst; and once invocations stop, the
\* pending timeout does run.
C21_Rearms ==
    /\ [](timers = {} => Len(viewTrail) = bursts)
    /\ [](timers # {} => Len(viewTrail) = bursts - 1)
    /\ [][Len(viewTrail') > Len(viewTrail) =>
             viewTrail' = Append(viewTrail, lastArgs)]_vars
    /\ (timers # {}) ~> (timers = {} /\ Len(viewTrail) = bursts)

C21_Witness ==
    /\ bursts = 2
    /\ burstLen >= 2
    /\ timers = {}
    /\ viewTrail = <<CHANGE_VIEW_TO_RIGHT, CHANGE_VIEW_TO_TOP>>
    /\ sceneCamera.position = <<0, sceneCameraDistance, 0>>

\* C22: while the pointer is held over a face and frames arrive less than a
\* quiet period apart, every frame dispatches again and the timeout starts
\* anew, so nothing runs; the command runs once, a quiet period after the
\* last dispatching frame, and it is the command that frame picked.
C22_HeldPointerDefers ==
    /\ [][(mouse.isDown /\ mouse' = mouse /\ sceneCamera' = sceneCamera
            /\ HeldFrame /\ HitIndices # {}) =>
             /\ Invokes
             /\ lastArgs' = NearestCommand
             /\ \A t \in timers' : t.remaining = QuietTicks
             /\ BurstOpen => burstExecs' = 0]_vars
    /\ [](BurstOpen => (burstExecs = 0 /\ timers # {}))
    /\ [](BurstOver => burstExecs = 1)
    /\ [][Executes =>
             /\ sinceInvoke = QuietTicks
             /\ sceneCamera'.position
                    = ViewPosition(lastArgs, sceneCameraDistance)]_vars

C22_Witness ==
    /\ burstLen = MaxBurst
    /\ mouse.isDown
    /\ BurstOver
    /\ burstExecs = 1
    /\ lastArgs = CHANGE_VIEW_TO_TOP
    /\ sceneCamera.position = <<0, sceneCameraDistance, 0>>

\* C23: the flag follows the physical button: a frame that runs while the
\* button is up finds the flag false and dispatches nothing, also when the
\* button went down over the container and came up outside it.
C23_FlagTracksPointer ==
    [][(~pointer.down /\ mouse' = mouse /\ sceneCamera' = sceneCamera
        /\ animateGizmo) =>
          /\ ~mouse.isDown
          /\ UNCHANGED <<timers, inDebounce>>]_vars

\* The normalized coordinates, in halves, of a place given in quarters of the
\* rectangle from its top-left corner.
SpotNdc(spot) == <<spot[1] - 2, 2 - spot[2]>>

\* C24: a touchstart leaves the coordinates of the touch and the flag set, so
\* a frame that finds the flag set after touches never casts through the
\* coordinates setup created, and dispatches iff the ray through the
\* pointer's coordinates enters a face.
C24_TouchStartSetsCoordinatesFirst ==
    /\ [][\A spot \in Spots :
             TouchStart(spot) =>
                 mouse' = [coordinates |-> SpotNdc(spot), isDown |-> TRUE]]_vars
    /\ [](mouse.isDown => mouse.coordinates # InitMouse.coordinates)
    /\ [][(mouse.isDown /\ mouse' = mouse /\ sceneCamera' = sceneCamera
            /\ HeldFrame) =>
             (Invokes <=> HitIndices # {})]_vars

C24_Witness ==
    /\ mouse = [coordinates |-> <<1, 0>>, isDown |-> TRUE]
    /\ burstLen = 1
    /\ sinceInvoke = 0
    /\ lastArgs = CHANGE_VIEW_TO_RIGHT
    /\ burstExecs = 0

\* C25: for the same client coordinates a touch event changes the pointer
\* state as the mouse event does: touchstart as mousedown, touchmove as
\* mousemove, touchend as mouseup.
C25_TouchAsMouse ==
    [][/\ \A spot \in PointerSpots :
            /\ PointerTouchStart(spot) => mouse' = onMouseDown(mouse)
            /\ PointerTouchMove(spot) =>
                   mouse' = onMouseMove(mouse, gizmoRect,
                                        ClientX(spot, gizmoRect),
                                        ClientY(spot, gizmoRect))
       /\ TouchEnd => mouse' = onMouseUp(mouse)]_vars

\* C26: the pointer state starts as (-1, -1) with the flag false, the flag
\* is set by mousedown and touchstart only, and no frame dispatches while it
\* is false: so none does before the first of these events.
C26_NoDispatchBeforePress ==
    /\ [][(dom = "none" /\ dom' = "attached") =>
             mouse' = [coordinates |-> <<0 - 2, 0 - 2>>, isDown |-> FALSE]]_vars
    /\ [][(~mouse.isDown /\ mouse'.isDown) =>
             (MouseDown \/ \E spot \in Spots : TouchStart(spot))]_vars
    /\ [][Invokes => (mouse.isDown /\ mouse' = mouse)]_vars

C26_Witness ==
    /\ lastArgs = NoArgs
    /\ ~mouse.isDown
    /\ mouse.coordinates = <<0, 0>>
    /\ HitIndices # {}
    /\ gizmoCamera.position = <<0 - gizmoCameraDistance, 0, 0>>

\* The coordinates, in halves, that the normalization rule gives a client
\* position against the rectangle `r`.
Normalized(x, y, rawX, rawY, r) ==
    /\ x * r.width = 4 * (rawX - r.left) - 2 * r.width
    /\ y * r.height = 2 * r.height - 4 * (rawY - r.top)

\* C27: the rectangle is measured once, by setup, and every pointer and
\* touch event is normalized against that rectangle: the container coming
\* to lie elsewhere on screen changes neither the rectangle kept nor the
\* pointer state, and only setup writes the rectangle.
C27_RectCapturedOnce ==
    /\ [][\A spot \in Spots :
             (\/ LayoutMouseMove(spot)
              \/ LayoutTouchMove(spot)
              \/ LayoutTouchStart(spot)) =>
                 Normalized(mouse'.coordinates[1], mouse'.coordinates[2],
                            ClientX(spot, layout), ClientY(spot, layout),
                            gizmoRect)]_vars
    /\ [][layout' # layout => UNCHANGED <<gizmoRect, mouse>>]_vars
    /\ [][gizmoRect' # gizmoRect =>
             (dom = "none" /\ dom' = "attached" /\ gizmoRect' = layout)]_vars

C27_Witness ==
    /\ gizmoRect = [left |-> 10, top |-> 20, width |-> 8, height |-> 8]
    /\ layout = [left |-> 14, top |-> 24, width |-> 8, height |-> 8]
    /\ mouse.coordinates = <<2, 0 - 2>>

\* C28: from a successful setup on the gizmo's scene holds six faces, every
\* face carries one of the six view commands and every command is carried by
\* one face; no pointer event, frame, timeout or teardown changes the faces'
\* number, places or commands.
C28_SixFacesSixCommands ==
    /\ [](dom # "none" =>
             /\ Len(gizmoScene) = 6
             /\ \A i \in 1..6 : gizmoScene[i].userData.command \in COMMANDS
             /\ \A command \in COMMANDS :
                    Cardinality({i \in 1..6 :
                        gizmoScene[i].userData.command = command}) = 1)
    /\ [][dom # "none" =>
             /\ Len(gizmoScene') = Len(gizmoScene)
             /\ \A i \in 1..Len(gizmoScene) :
                    /\ gizmoScene'[i].userData = gizmoScene[i].userData
                    /\ gizmoScene'[i].position = gizmoScene[i].position]_vars

C28_Witness ==
    /\ dom = "removed"
    /\ burstExecs = 1
    /\ lastArgs = CHANGE_VIEW_TO_BOTTOM
    /\ Len(gizmoScene) = 6
    /\ gizmoScene[6].userData.command = CHANGE_VIEW_TO_BOTTOM
    /\ gizmoScene[6].matrixWorld = <<0, 0 - 1, 0>>

\* C29: through the gizmo the unsupported-axis error never happens: in no
\* reachable state would the action of any of the six commands throw, and
\* every run of a timeout's callback completes without an error.
C29_NoUnsupportedAxis ==
    /\ [](fault # "UnsupportedAxis")
    /\ [](\A command \in COMMANDS :
             ~gizmoActionFn(sceneCamera, sceneCameraDistance, focusPoint,
                            command).threw)
    /\ [][Executes => fault' = "none"]_vars

C29_Witness ==
    /\ burstExecs = 1
    /\ lastArgs = CHANGE_VIEW_TO_TOP
    /\ fault = "none"
    /\ timers = {}
    /\ dom = "attached"
    /\ ~mouse.isDown
    /\ sceneCamera.position = <<0, sceneCameraDistance, 0>>

\* C30: a rotateCamera call that throws leaves the camera as it was before
\* the call, position and orientation alike.
C30_FailedRotateLeavesCamera ==
    [][fault' = "UnsupportedAxis" => sceneCamera' = sceneCamera]_vars

\* C31: when the timeout's callback runs with a command value that is none
\* of the six view commands, the primary camera's position and orientation
\* stay as they were and no error is raised.
C31_StrayCommandIsNoOp ==
    [][\A t \in timers :
          (/\ t \notin timers'
           /\ Executes
           /\ t.params.command \notin COMMANDS) =>
              /\ sceneCamera' = sceneCamera
              /\ fault' = "none"]_vars

C31_Witness ==
    /\ burstExecs = 1
    /\ lastArgs = Undefined
    /\ timers = {}
    /\ fault = "none"
    /\ sceneCamera.position = <<0 - 9, 0, 0>>

\* The frame taken in this step dispatches nothing: no face is under the
\* pointer, or the pointer is not pressed.
MissedPick ==
    ~ShouldDispatch(intersectObjects(gizmoCamera.matrixWorld,
                                     mouse.coordinates, gizmoScene, gizmoRect),
                    mouse)

\* C32: a frame that dispatches nothing raises no error, and like a frame
\* that dispatches it leaves the gizmo camera synchronised with the primary
\* camera and has drawn the gizmo scene once; it invokes nothing.
C32_MissedPickStillDraws ==
    [][(mouse' = mouse /\ sceneCamera' = sceneCamera /\ animateGizmo) =>
          /\ fault' = "none"
          /\ gizmoCamera' = SyncedCamera(sceneCamera, focusPoint)
          /\ gizmoScene' = RenderedScene(gizmoScene)
          /\ draws' = 1
          /\ MissedPick => UNCHANGED debounceVars]_vars

C32_Witness ==
    /\ draws = 1
    /\ ~mouse.isDown
    /\ lastArgs = NoArgs
    /\ timers = {}
    /\ fault = "none"
    /\ sceneCamera.position = <<0, 4, 0>>
    /\ gizmoCamera = SyncedCamera(sceneCamera, focusPoint)
    /\ gizmoScene = RenderedScene(gizmoScene)

\* The second instance's pointer is pressed over one of its faces.
PeerShouldDispatch ==
    ShouldDispatch(intersectObjects(peer.gizmoCamera.matrixWorld,
                                    peer.mouse.coordinates, peer.gizmoScene,
                                    peer.gizmoRect),
                   peer.mouse)

\* C33: each instance has its own container and its own pointer state.  A
\* successful setup adds the container of that instance alone, with a new
\* pointer state; no step changes the pointer state of both instances;
\* destroying an instance removes its own container and leaves the other
\* instance's container, pointer state, scene and cameras as they were, and
\* the other instance's frame still synchronises, draws and dispatches.
C33_InstancesOwnTheirState ==
    /\ [][(dom = "none" /\ dom' # "none") =>
             (dom' = "attached" /\ mouse' = InitMouse /\ peer' = peer)]_vars
    /\ [][(peer.dom = "none" /\ peer'.dom # "none") =>
             /\ peer'.dom = "attached"
             /\ peer'.mouse = InitMouse
             /\ UNCHANGED gizmoVars]_vars
    /\ [][mouse' # mouse => peer'.mouse = peer.mouse]_vars
    /\ [][peer'.mouse # peer.mouse => mouse' = mouse]_vars
    /\ [][teardowns' # teardowns =>
             /\ dom' = "removed"
             /\ peer' = peer
             /\ UNCHANGED <<mouse, gizmoScene, gizmoCamera, gizmoRect>>]_vars
    /\ [][(peer.dom = "attached" /\ peer'.dom = "removed") =>
             /\ peer' = [peer EXCEPT !.dom = "removed"]
             /\ UNCHANGED gizmoVars]_vars
    /\ [][(dom = "removed" /\ UNCHANGED <<gizmoVars, sceneCamera>>
                            /\ PeerFrame) =>
             /\ peer'.gizmoCamera = SyncedCamera(peer.sceneCamera, focusPoint)
             /\ peer'.gizmoScene = RenderedScene(peer.gizmoScene)
             /\ peer'.mouse = peer.mouse
             /\ PeerShouldDispatch => Invokes]_vars

C33_Witness ==
    /\ dom = "removed"
    /\ teardowns = 1
    /\ mouse.isDown
    /\ peer.dom = "attached"
    /\ peer.mouse.isDown
    /\ peer.mouse.coordinates # mouse.coordinates
    /\ peer.gizmoScene = RenderedScene(addGizmoHandler)
    /\ \E t \in timers : t.params.sceneCamera = PeerCamera

\* `first` is called before `second` in the calls of the host's last handler.
CalledBefore(calls, first, second) ==
    \E i, j \in 1..Len(calls) :
        i < j /\ calls[i] = first /\ calls[j] = second

\* C34: the host's unmount cancels the requested animation frame before it
\* destroys the gizmo, so once the component is unmounted no frame is
\* requested and no gizmo frame step runs any more; and every animation
\* frame draws the primary scene before it runs the gizmo's frame step.
C34_UnmountStopsFrames ==
    /\ [](host.stage = "unmounted" => host.requested = {})
    /\ [][teardowns' # teardowns =>
             /\ host'.requested = {}
             /\ CalledBefore(host'.calls, "cancelAnimationFrame",
                             "destroyCameraGizmo")]_vars
    /\ [][host.stage = "unmounted" =>
             /\ UNCHANGED <<host, draws, gizmoCamera, gizmoScene>>
             /\ ~Invokes]_vars
    /\ [][host'.frameId # host.frameId =>
             /\ CalledBefore(host'.calls, "render", "renderCameraGizmo")
             /\ draws' = 1
             /\ gizmoCamera' = SyncedCamera(sceneCamera', focusPoint)]_vars

C34_Witness ==
    /\ host.stage = "unmounted"
    /\ host.frameId = 3
    /\ host.requested = {}
    /\ dom = "removed"
    /\ mouse.isDown
    /\ timers # {}
    /\ sceneCamera.position = <<0 - 9, 0, 0>>

\* C35: once the host component is unmounted none of the listeners it put on
\* the window is still there, and no step after the unmount changes the
\* component's pointer state or invokes a debounced function.
C35_NoListenerAfterUnmount ==
    /\ [](host.stage = "unmounted" =>
             host.listeners \cap {"resize", "mousedown", "mouseup"} = {})
    /\ [][host.stage = "unmounted" => (mouse' = mouse /\ ~Invokes)]_vars

====
